---- MODULE Spec2Model ----
(***************************************************************************)
(* figtree: layered configuration merge.                                   *)
(*                                                                         *)
(* The model follows figtree.go: LoadAllConfigs discovers the candidate    *)
(* files, LoadAllConfigSources walks the documents one by one (filterOut,  *)
(* Decode of the `config` block into the Merger, mergeStructs, advance),   *)
(* and the merge engine (mergeStructs / mergeMaps / mergeArrays /          *)
(* assignValue) reconciles every document with the destination.            *)
(*                                                                         *)
(* Destination: a struct shaped like the test suite's TestOptions /        *)
(* TestBuiltin,                                                            *)
(*      s : StringOption           (Option[string])                        *)
(*      p : string                                                         *)
(*      l : ListStringOption       ([]Option[string])                      *)
(*      m : MapStringOption        (map[string]Option[string])             *)
(*      t : struct { s, q StringOption }                                   *)
(* Documents are yaml mappings whose scalars are strings.  A file name is  *)
(* a tuple (<<"doc", 2>>, <<"dir", 1>>, <<"etc">>); the empty name is <<>>.*)
(***************************************************************************)
EXTENDS Integers, Sequences, FiniteSets, TLC

\* ------------------------------------------------------------------ bounds
\* longest document sequence handed to LoadAllConfigSources
MaxDocs == 2
\* number of directories from the root down to the working directory
Depth == 2
\* longest list of the slice specification's first document
MaxLen == 4

\* ------------------------------------------------------- option.go (generic)
defaultSource == <<"default">>
overrideSource == <<"override">>
promptSource == <<"prompt">>
yamlSource == <<"yaml">>
jsonSource == <<"json">>

\* FileCoordinate: a line number; nil is NoLocation
NoLocation == 0

NewSource(name, loc) == [Name |-> name, Location |-> loc]

DefaultSource == NewSource(defaultSource, NoLocation)

OverrideSource == NewSource(overrideSource, NoLocation)

\* the zero value of Option[string]
ZeroOption == [Source |-> NewSource(<<>>, NoLocation), Defined |-> FALSE, Value |-> ""]

NewOption(dflt) == [Source |-> DefaultSource, Defined |-> TRUE, Value |-> dflt]

IsDefined(o) == o.Defined

IsDefault(o) == o.Source.Name = defaultSource

GetValue(o) == o.Value

GetSource(o) == o.Source

SetSource(o, source) == [o EXCEPT !.Source = source]

\* variant: a zero value leaves the option undefined
SetValue_ZeroUndefined(o, v) == [o EXCEPT !.Value = v, !.Defined = (v # "")]

\* SetValue with a value of the option's own type T
SetValue(o, v) == [o EXCEPT !.Value = v, !.Defined = TRUE]

\* ------------------------------------------------------------- yaml nodes
ScalarNode(v, line) ==
    [Kind |-> "scalar", Value |-> v, Line |-> line, Content |-> <<>>]

\* Content: the item nodes
SequenceNode(items, line) ==
    [Kind |-> "sequence", Value |-> "", Line |-> line, Content |-> items]

\* Content: <<key, value node>> pairs in document order
MappingNode(pairs, line) ==
    [Kind |-> "mapping", Value |-> "", Line |-> line, Content |-> pairs]

isMap(src) == src.Kind = "mapping"

isList(src) == src.Kind = "sequence"

\* FileCoordinate of a node, nil when the node carries no line
coordOf(src) == src.Line

\* ------------------------------------------------------ destination types
\* kinds of destination values: "option", "string", "list", "map", "struct",
\* "array"
TopFields == {"s", "p", "l", "m", "t"}
SubFields == {"s", "q"}
\* the destination also has a fixed-size array a : [ArrayLen]StringOption
ArrayLen == 2
AllFields == TopFields \cup {"a"}

\* and a slice of plain structs r : []struct{ id string }
ElemFields == {"id"}
DestFields == AllFields \cup {"r"}

\* populateYAMLMaps: the destination fields by yaml name, with their kind
populateYAMLMaps(ty) ==
    CASE ty = "top" ->
            [f \in DestFields |->
                CASE f = "s" -> "option"
                  [] f = "p" -> "string"
                  [] f = "l" -> "list"
                  [] f = "m" -> "map"
                  [] f = "t" -> "struct"
                  [] f = "a" -> "array"
                  [] f = "r" -> "structs"]
      [] ty = "elem" -> [f \in ElemFields |-> "string"]
      [] OTHER -> [f \in SubFields |-> "option"]

ZeroSub == [s |-> ZeroOption, q |-> ZeroOption]

\* a map is a function from its keys; the nil map is the empty function
NilMap == [k \in {} |-> ZeroOption]

ZeroArray == [i \in 1..ArrayLen |-> ZeroOption]

\* the zero value of an element of r
ZeroElem == [id |-> ""]

ZeroOptions ==
    [s |-> ZeroOption, p |-> "", l |-> <<>>, m |-> NilMap, t |-> ZeroSub, a |-> ZeroArray,
     r |-> <<>>]

\* variant: every destination counts as unset
isZero_Always(kind, v) == TRUE

isZero(kind, v) ==
    CASE kind = "option" -> ~IsDefined(v)
      [] kind = "string" -> v = ""
      [] kind = "list" -> v = <<>>
      [] kind = "map" -> v = NilMap
      [] kind = "struct" -> v = ZeroSub
      [] kind = "array" -> v = ZeroArray
      [] kind = "structs" -> v = <<>>

\* variant: a default never gives way
isZeroOrDefaultOption_Never(kind, v) == FALSE

isZeroOrDefaultOption(kind, v) ==
    IF kind = "option" THEN (~IsDefined(v)) \/ IsDefault(v) ELSE FALSE

\* variant: every value passes for the one the destination has
isSame_Always(kind, v, src) == TRUE

\* isSame(dstField, val): reflect.DeepEqual of the destination with the
\* decoded yaml value; only a plain string can equal a decoded scalar
isSame(kind, v, src) ==
    kind = "string" /\ src.Kind = "scalar" /\ v = src.Value

\* ------------------------------------------------------------- the Merger
NewMerger == [sourceFile |-> <<"merge">>, Overwrite |-> <<>>, ignore |-> <<>>]

InSeq(x, s) == \E i \in 1..Len(s) : s[i] = x

mustOverwrite(m, name) == InSeq(name, m.Overwrite)

\* variant: the ignore list is never consulted
mustIgnore_Never(m, name) == FALSE

mustIgnore(m, name) == InSeq(name, m.ignore)

\* variant: the ignore list is replaced by the overwrite list
appendMissing_Replace(ignore, overwrite) == overwrite

RECURSIVE appendMissing(_, _)
appendMissing(ignore, overwrite) ==
    IF overwrite = <<>> THEN ignore
    ELSE appendMissing(
            IF InSeq(Head(overwrite), ignore) THEN ignore
            ELSE Append(ignore, Head(overwrite)),
            Tail(overwrite))

\* variant: the Overwrite list outlives its document
advance_KeepOverwrite(m) ==
    [m EXCEPT !.ignore = appendMissing(m.ignore, m.Overwrite)]

advance(m) ==
    [m EXCEPT !.ignore = appendMissing(m.ignore, m.Overwrite), !.Overwrite = <<>>]

\* ------------------------------------------------------------ assignValue
assignOptions(overwrite) ==
    [Overwrite |-> overwrite, srcIsDefault |-> FALSE, destIsDefault |-> FALSE,
     sourceLocation |-> NewSource(<<>>, NoLocation)]

Assigned(v) == [ok |-> TRUE, err |-> "", dest |-> v]
NotAssigned(v) == [ok |-> FALSE, err |-> "", dest |-> v]
notAssignableError(v) == [ok |-> FALSE, err |-> "notAssignable", dest |-> v]

\* assignValue with a string destination
assignString(dest, src, opts) ==
    IF src.Kind = "scalar"
    THEN IF opts.Overwrite \/ isZero("string", dest)
            \/ (opts.destIsDefault /\ ~opts.srcIsDefault)
         THEN Assigned(src.Value)
         ELSE NotAssigned(dest)
    ELSE notAssignableError(dest)

\* variant: the option keeps the source it had
assignOptionFrom_KeepSource(m, dest, src, opts, inner) ==
    IF inner.err # "" THEN [inner EXCEPT !.dest = dest]
    ELSE IF inner.ok THEN Assigned(SetValue(dest, inner.dest))
    ELSE NotAssigned(dest)

\* assignValue with an Option destination: the raw value is assigned to a
\* fresh value of the option's type, then SetValue and SetSource
assignOptionFrom(m, dest, src, opts, inner) ==
    LET name == IF opts.sourceLocation.Name = <<>> THEN m.sourceFile
                ELSE opts.sourceLocation.Name
        loc == IF coordOf(src) # NoLocation THEN coordOf(src)
               ELSE opts.sourceLocation.Location
    IN  IF inner.err # "" THEN [inner EXCEPT !.dest = dest]
        ELSE IF inner.ok
        THEN Assigned(SetSource(SetValue(dest, inner.dest), NewSource(name, loc)))
        ELSE NotAssigned(dest)

assignOption(m, dest, src, opts) ==
    assignOptionFrom(m, dest, src, opts,
        assignString("", src, [opts EXCEPT !.destIsDefault = IsDefault(dest)]))

assignValue(m, kind, dest, src, opts) ==
    CASE kind = "option" -> assignOption(m, dest, src, opts)
      [] kind = "string" -> assignString(dest, src, opts)
      [] OTHER -> notAssignableError(dest)

\* ------------------------------------------------------------ mergeArrays
Result(v, changed, err) == [val |-> v, changed |-> changed, err |-> err]

\* variant: no item is ever taken for a duplicate
isDuplicate_Never(cp, item) == FALSE

\* the dedup loop: the item, assigned to a temporary of the element's value
\* type, equals the value of an element of cp
isDuplicateOf(cp, tmpVal) ==
    \E i \in 1..Len(cp) : tmpVal.err = "" /\ GetValue(cp[i]) = tmpVal.dest

isDuplicate(cp, item) == isDuplicateOf(cp, assignString("", item, assignOptions(FALSE)))

\* the foreach callback of mergeArrays, for the items from ix on; cp is the
\* copy built so far
RECURSIVE mergeArraysFrom(_, _, _, _, _, _, _)

\* the end of the callback for an item that is no duplicate: a is the
\* assignment of the item to a new element
mergeArraysAppend(m, cp, items, ix, skipDedup, overwrite, changed, a) ==
    IF a.err # "" THEN Result(cp, FALSE, a.err)
    ELSE mergeArraysFrom(m, Append(cp, a.dest), items, ix + 1,
                         skipDedup, overwrite, changed \/ a.ok)

mergeArraysFrom(m, cp, items, ix, skipDedup, overwrite, changed) ==
    IF ix > Len(items) THEN Result(cp, changed, "")
    ELSE IF (~skipDedup) /\ isDuplicate(cp, items[ix])
    THEN mergeArraysFrom(m, cp, items, ix + 1, skipDedup, overwrite, changed)
    ELSE mergeArraysAppend(m, cp, items, ix, skipDedup, overwrite, changed,
            assignValue(m, "option", ZeroOption, items[ix], assignOptions(overwrite)))

\* what mergeArrays returns: the new slice, or on an error the old one
mergeArraysResult(dst, r) == IF r.err # "" THEN Result(dst, FALSE, r.err) ELSE r

\* variant: skipDedup is left false for an empty destination too
mergeArrays_AlwaysDedup(m, dst, src, overwrite) ==
    IF ~isList(src) THEN Result(dst, FALSE, "notAssignable")
    ELSE mergeArraysResult(dst,
            mergeArraysFrom(m, IF overwrite THEN <<>> ELSE dst, src.Content, 1,
                            FALSE, overwrite, overwrite))

\* mergeArrays with a slice destination; on an error the caller keeps dst
mergeArrays(m, dst, src, overwrite) ==
    IF ~isList(src) THEN Result(dst, FALSE, "notAssignable")
    ELSE mergeArraysResult(dst,
            mergeArraysFrom(m, IF overwrite THEN <<>> ELSE dst, src.Content, 1,
                            overwrite \/ Len(dst) = 0, overwrite, overwrite))

\* variant: every element of a fixed-size array may be filled
fillable_Always(dstElem, overwrite) == TRUE

\* the guard of the fixed-size array branch: the element is an undefined or
\* default Option, or the zero value, or overwrite is in force
fillable(dstElem, overwrite) ==
    isZeroOrDefaultOption("option", dstElem) \/ dstElem = ZeroOption \/ overwrite

\* the foreach callback of mergeArrays with a fixed-size array destination,
\* for the items from ix on; the array is changed in place
RECURSIVE mergeArraysFixedFrom(_, _, _, _, _, _)

\* a is the assignment of the item at ix to the element at ix
mergeArraysFixedAssign(m, dst, items, ix, overwrite, changed, a) ==
    IF a.err # "" THEN Result(dst, FALSE, a.err)
    ELSE mergeArraysFixedFrom(m, [dst EXCEPT ![ix] = a.dest], items, ix + 1,
                              overwrite, changed \/ a.ok)

mergeArraysFixedFrom(m, dst, items, ix, overwrite, changed) ==
    IF ix > Len(items) THEN Result(dst, changed, "")
    ELSE IF Len(dst) < ix \/ ~fillable(dst[ix], overwrite)
    THEN mergeArraysFixedFrom(m, dst, items, ix + 1, overwrite, changed)
    ELSE mergeArraysFixedAssign(m, dst, items, ix, overwrite, changed,
            assignValue(m, "option", dst[ix], items[ix], assignOptions(overwrite)))

\* mergeArrays with a fixed-size array destination
mergeArraysFixed(m, dst, src, overwrite) ==
    IF ~isList(src) THEN Result(dst, FALSE, "notAssignable")
    ELSE mergeArraysFixedFrom(m, dst, src.Content, 1, overwrite, overwrite)

\* -------------------------------------------------------------- mergeMaps
MapSet(dst, key, v) == [k \in (DOMAIN dst) \cup {key} |-> IF k = key THEN v ELSE dst[k]]

\* the part of the foreachKey callback that runs once the key is in dst
RECURSIVE mergeMapsFrom(_, _, _, _, _, _)
mergeMapsAssigned(m, dst, pairs, ix, overwrite, changed, a) ==
    IF a.ok
    THEN mergeMapsFrom(m, MapSet(dst, pairs[ix][1], a.dest), pairs, ix + 1, overwrite, TRUE)
    ELSE Result(dst, changed, "error")

mergeMapsPresent(m, dst, pairs, ix, overwrite, changed) ==
    IF ~isZero("option", dst[pairs[ix][1]])
    THEN mergeMapsFrom(m, dst, pairs, ix + 1, overwrite, changed)
    ELSE mergeMapsAssigned(m, dst, pairs, ix, overwrite, changed,
            assignValue(m, "option", dst[pairs[ix][1]], pairs[ix][2],
                        assignOptions(overwrite \/ mustOverwrite(m, pairs[ix][1]))))

\* the foreachKey callback of mergeMaps for the pairs from ix on; the map is
\* changed in place, so an error leaves the keys set so far
\* the element of a key the map lacked, with the file and the coordinate
\* of the value filled in where the assignment left them out
mergeMapsElem(m, value, o) ==
    SetSource(o, NewSource(IF o.Source.Name = <<>> THEN m.sourceFile ELSE o.Source.Name,
                           IF o.Source.Location = NoLocation THEN coordOf(value)
                           ELSE o.Source.Location))

\* the callback for a key the map lacks: a is the assignment of the value to
\* a new element
mergeMapsAbsent(m, dst, pairs, ix, overwrite, changed, a) ==
    IF a.err = ""
    THEN mergeMapsFrom(m, MapSet(dst, pairs[ix][1], mergeMapsElem(m, pairs[ix][2], a.dest)),
                       pairs, ix + 1, overwrite, changed \/ a.ok)
    ELSE IF a.err = "notAssignable"
    THEN mergeMapsPresent(m, MapSet(dst, pairs[ix][1], ZeroOption), pairs, ix,
                          overwrite, TRUE)
    ELSE Result(dst, changed, a.err)

\* foreachKey hands the callback the key as yaml decodes it: a key written
\* as a number is an int, any other key of the documents is a string
keyKind(key) == IF key \in {"1"} THEN "int" ELSE "string"

\* dst.MapIndex(key) panics for a key that is not assignable to the map's
\* key type, string
mergeMapsFrom(m, dst, pairs, ix, overwrite, changed) ==
    IF ix > Len(pairs) THEN Result(dst, changed, "")
    ELSE IF keyKind(pairs[ix][1]) # "string" THEN Result(dst, changed, "panic")
    ELSE IF pairs[ix][1] \in DOMAIN dst
    THEN mergeMapsPresent(m, dst, pairs, ix, overwrite, changed)
    ELSE mergeMapsAbsent(m, dst, pairs, ix, overwrite, changed,
            assignValue(m, "option", ZeroOption, pairs[ix][2], assignOptions(overwrite)))

mergeMaps(m, dst, src, overwrite) ==
    IF ~isMap(src) THEN Result(dst, FALSE, "")
    ELSE mergeMapsFrom(m, IF overwrite THEN NilMap ELSE dst, src.Content, 1,
                       overwrite, FALSE)

\* ----------------------------------------------------------- mergeStructs
RECURSIVE mergeStructs(_, _, _, _, _)
RECURSIVE mergeFieldsFrom(_, _, _, _, _, _, _)

\* the dedup loop for a slice of plain structs: the item is assigned to a
\* temporary of the element's type, and compared only when that raised no
\* error
isDuplicateStruct(m, cp, item) ==
    \E tmpVal \in {assignValue(m, "struct", ZeroElem, item, assignOptions(FALSE))} :
        \E i \in 1..Len(cp) : tmpVal.err = "" /\ cp[i] = tmpVal.dest

\* the foreach callback of mergeArrays with a slice of plain structs, for
\* the items from ix on
RECURSIVE mergeArraysStructsFrom(_, _, _, _, _, _, _)

\* r is the merge of the item into a new element
mergeArraysStructsAppend(m, cp, items, ix, skipDedup, overwrite, changed, r) ==
    IF r.err # "" THEN Result(cp, FALSE, r.err)
    ELSE mergeArraysStructsFrom(m, Append(cp, r.val), items, ix + 1,
                                skipDedup, overwrite, changed \/ r.changed)

mergeArraysStructsFrom(m, cp, items, ix, skipDedup, overwrite, changed) ==
    IF ix > Len(items) THEN Result(cp, changed, "")
    ELSE IF (~skipDedup) /\ isDuplicateStruct(m, cp, items[ix])
    THEN mergeArraysStructsFrom(m, cp, items, ix + 1, skipDedup, overwrite, changed)
    ELSE mergeArraysStructsAppend(m, cp, items, ix, skipDedup, overwrite, changed,
            mergeStructs(m, "elem", ZeroElem, items[ix], overwrite))

\* mergeArrays with a slice of plain structs
mergeArraysStructs(m, dst, src, overwrite) ==
    IF ~isList(src) THEN Result(dst, FALSE, "notAssignable")
    ELSE mergeArraysResult(dst,
            mergeArraysStructsFrom(m, IF overwrite THEN <<>> ELSE dst, src.Content, 1,
                                   overwrite \/ Len(dst) = 0, overwrite, overwrite))

\* the foreachField callback of mergeStructs for one source field
\* the end of the callback: a is the outcome of the assignment, sub that of
\* the structural merge which follows when nothing was assigned
mergeFieldEnd(dst, fieldName, a, sub) ==
    IF a.err = "error" THEN Result(dst, FALSE, "error")
    ELSE IF a.ok THEN Result([dst EXCEPT ![fieldName] = a.dest], TRUE, "")
    ELSE Result([dst EXCEPT ![fieldName] = sub.val], sub.changed, sub.err)

\* the switch on dstField.Kind() after the assignment a
mergeFieldKind(m, kind, dst, fieldName, srcField, ow, a) ==
    mergeFieldEnd(dst, fieldName, a,
        CASE kind = "map" -> mergeMaps(m, dst[fieldName], srcField, ow)
          [] kind = "list" -> mergeArrays(m, dst[fieldName], srcField, ow)
          [] kind = "array" -> mergeArraysFixed(m, dst[fieldName], srcField, ow)
          [] kind = "structs" -> mergeArraysStructs(m, dst[fieldName], srcField, ow)
          [] kind = "struct" -> mergeStructs(m, "sub", dst[fieldName], srcField, ow)
          [] OTHER -> Result(dst[fieldName], FALSE, a.err))

\* variant: every field is assigned anew
shouldAssign_Always(kind, dstField, ow) == TRUE

\* shouldAssign; a value read from a document is never zero and never an
\* option
shouldAssign(kind, dstField, ow) ==
    isZero(kind, dstField) \/ isZeroOrDefaultOption(kind, dstField) \/ ow

\* the callback for a field of the destination that is not ignored
mergeFieldOf(m, kind, dst, fieldName, srcField, ow) ==
    mergeFieldKind(m, kind, dst, fieldName, srcField, ow,
        IF shouldAssign(kind, dst[fieldName], ow) /\ ~isSame(kind, dst[fieldName], srcField)
        THEN assignValue(m, kind, dst[fieldName], srcField, assignOptions(ow))
        ELSE NotAssigned(dst[fieldName]))

\* variant: a name on the Overwrite list is merged although it is ignored
mergeField_OverwriteFirst(m, ty, dst, fieldName, srcField, overwrite) ==
    IF mustIgnore(m, fieldName) /\ ~mustOverwrite(m, fieldName) THEN Result(dst, FALSE, "")
    ELSE IF fieldName \notin DOMAIN populateYAMLMaps(ty) THEN Result(dst, FALSE, "")
    ELSE mergeFieldOf(m, populateYAMLMaps(ty)[fieldName], dst, fieldName, srcField,
                      overwrite \/ mustOverwrite(m, fieldName))

mergeField(m, ty, dst, fieldName, srcField, overwrite) ==
    IF mustIgnore(m, fieldName) THEN Result(dst, FALSE, "")
    ELSE IF fieldName \notin DOMAIN populateYAMLMaps(ty) THEN Result(dst, FALSE, "")
    ELSE mergeFieldOf(m, populateYAMLMaps(ty)[fieldName], dst, fieldName, srcField,
                      overwrite \/ mustOverwrite(m, fieldName))

\* r is what the callback returned for the field at ix
mergeFieldsNext(m, ty, pairs, ix, overwrite, changed, r) ==
    IF r.err # "" THEN Result(r.val, changed \/ r.changed, r.err)
    ELSE mergeFieldsFrom(m, ty, r.val, pairs, ix + 1, overwrite, changed \/ r.changed)

mergeFieldsFrom(m, ty, dst, pairs, ix, overwrite, changed) ==
    IF ix > Len(pairs) THEN Result(dst, changed, "")
    ELSE mergeFieldsNext(m, ty, pairs, ix, overwrite, changed,
            mergeField(m, ty, dst, pairs[ix][1], pairs[ix][2], overwrite))

\* mergeStructs with a struct destination and a mapping source
mergeStructs(m, ty, dst, src, overwrite) ==
    mergeFieldsFrom(m, ty, dst, src.Content, 1, overwrite, FALSE)

\* -------------------------------------------------------------- documents
\* a nil *yaml.Node, and the node of an empty file (Node.IsZero)
NilNode == [Kind |-> "nil", Value |-> "", Line |-> 0, Content |-> <<>>]

IsZero(node) == node.Kind = "nil"

\* walky.GetKey: the value of the first pair of a mapping with this key
GetKey(node, key) ==
    IF isMap(node) /\ \E i \in 1..Len(node.Content) : node.Content[i][1] = key
    THEN node.Content[CHOOSE i \in 1..Len(node.Content) :
                        /\ node.Content[i][1] = key
                        /\ \A j \in 1..(i - 1) : node.Content[j][1] # key][2]
    ELSE NilNode

\* strconv.ParseBool; on an error the result is false
ParseBool(str) == str \in {"1", "t", "T", "TRUE", "true", "True"}

ConfigSource(config, filename) == [Config |-> config, Filename |-> filename]

\* the scalar items of a yaml sequence, one per line from line on
ScalarItems(vals, line) == [i \in 1..Len(vals) |-> ScalarNode(vals[i], line + i)]

\* the pairs of a yaml mapping of scalars, one per line from line on
ScalarPairs(kvs, line) ==
    [i \in 1..Len(kvs) |-> <<kvs[i][1], ScalarNode(kvs[i][2], line + i)>>]

\* the reserved `config` block of a document: {overwrite: [...], stop: ...}
ConfigPairs(overwrite, stop) ==
    IF overwrite = <<>> /\ stop = "" THEN <<>>
    ELSE << <<"config",
              MappingNode(
                (IF overwrite = <<>> THEN <<>>
                 ELSE << <<"overwrite", SequenceNode(ScalarItems(overwrite, 1), 1)>> >>)
                \o (IF stop = "" THEN <<>> ELSE << <<"stop", ScalarNode(stop, 1)>> >>),
                1)>> >>

Document(body, overwrite, stop) == MappingNode(ConfigPairs(overwrite, stop) \o body, 1)

ScalarVals == {"a", "b"}
ListBodies == {<<"a">>, <<"a", "b">>, <<"b", "b">>}
MapBodies == {<< <<"k1", "a">> >>, << <<"k1", "b">> >>,
              << <<"k2", "b">>, <<"k1", "b">> >>}
SubBodies == {<< <<"s", "a">> >>, << <<"q", "b">> >>,
              << <<"s", "b">>, <<"q", "a">> >>}

\* the bodies a document gives field f: none, or one value of the field's type
Bodies(f) ==
    {<<>>} \cup
    CASE f \in {"s", "p"} -> {<< <<f, ScalarNode(v, 2)>> >> : v \in ScalarVals}
      [] f = "l" -> {<< <<f, SequenceNode(ScalarItems(b, 2), 2)>> >> : b \in ListBodies}
      [] f = "m" -> {<< <<f, MappingNode(ScalarPairs(b, 2), 2)>> >> : b \in MapBodies}
      [] f = "t" -> {<< <<f, MappingNode(ScalarPairs(b, 2), 2)>> >> : b \in SubBodies}

\* a second field name for the overwrite lists of the documents about f; for
\* the struct it is the name of one of its own fields
Other(f) == IF f = "s" THEN "p" ELSE "s"

\* the `config` blocks of the documents about f: <<overwrite, stop>>
Directives(f) ==
    {<<ow, stop>> : ow \in {<<>>, <<f>>}, stop \in {"", "true"}}
    \cup {<< <<Other(f), f>>, "" >>}

Docs(f) == {Document(b, c[1], c[2]) : b \in Bodies(f), c \in Directives(f)}

\* the destination before the load: zero, or holding NewOption defaults
DefaultOptions == [ZeroOptions EXCEPT !.s = NewOption("a"),
                                      !.t = [ZeroSub EXCEPT !.s = NewOption("a")]]

\* ------------------------------------------------------------ file system
NoFile == [Kind |-> "nofile", Value |-> "", Line |-> 0, Content |-> <<>>]
\* a file that cannot be opened or parsed, or an executable that fails
BadFile == [Kind |-> "badfile", Value |-> "", Line |-> 0, Content |-> <<>>]

Etc == <<"etc">>
Home == <<"home">>
Dir(k) == <<"dir", k>>
Paths == {Etc, Home} \cup {Dir(k) : k \in 1..Depth}

FileContents ==
    {NoFile, BadFile, NilNode}
    \cup {Document(<< <<"s", ScalarNode("a", 2)>> >>, <<>>, stop) : stop \in {"", "true"}}

\* os.Stat succeeds
Exists(file) == file # NoFile

\* FindParentPaths: the home directory's file when home is not on the way to
\* the working directory, then the files of the directories from the root
\* (Dir(1)) down to the working directory (Dir(Depth))
FindParentPaths(homeNotInCwd, files) ==
    (IF homeNotInCwd /\ Exists(files[Home]) THEN <<Home>> ELSE <<>>)
    \o SelectSeq([k \in 1..Depth |-> Dir(k)], LAMBDA p : Exists(files[p]))

\* ReadFile: nil without a file, an error for an unreadable or failing one
ReadFile(files, file) ==
    CASE files[file] = NoFile -> [cs |-> <<>>, err |-> ""]
      [] files[file] = BadFile -> [cs |-> <<>>, err |-> "error"]
      [] OTHER -> [cs |-> <<ConfigSource(files[file], file)>>, err |-> ""]

\* variant: the paths are read first to last
RECURSIVE readPathsFrom(_, _, _, _)
readPathsFrom(files, paths, i, configSources) ==
    IF i > Len(paths) THEN [sources |-> configSources, err |-> ""]
    ELSE LET r == ReadFile(files, paths[i])
         IN  IF r.err # "" THEN [sources |-> configSources, err |-> r.err]
             ELSE readPathsFrom(files, paths, i + 1, configSources \o r.cs)

readPathsInOrder(files, paths, i, configSources) ==
    readPathsFrom(files, paths, 1, configSources)

\* the loop of LoadAllConfigs over paths[i], paths[i-1], ..., paths[1]
RECURSIVE readPathsInReverse(_, _, _, _)
readPathsInReverse(files, paths, i, configSources) ==
    IF i < 1 THEN [sources |-> configSources, err |-> ""]
    ELSE LET r == ReadFile(files, paths[i])
         IN  IF r.err # "" THEN [sources |-> configSources, err |-> r.err]
             ELSE readPathsInReverse(files, paths, i - 1, configSources \o r.cs)

\* ------------------------------------------------ map[string]interface{}
\* The destination is a map[string]interface{} that the caller passes by
\* pointer.  A value of type interface{} is a record of its dynamic kind:
\* a string, a []interface{} of values, or a map[string]interface{} given
\* by its <<key, value>> pairs in the order the keys were set.
AnyString(v) == [Kind |-> "string", Value |-> v, Content |-> <<>>]
AnySlice(items) == [Kind |-> "slice", Value |-> "", Content |-> items]
AnyMap(pairs) == [Kind |-> "map", Value |-> "", Content |-> pairs]

\* mergeSource.reflect: node.Decode into an interface{}
RECURSIVE decode(_)
decode(node) ==
    CASE node.Kind = "scalar" -> AnyString(node.Value)
      [] node.Kind = "sequence" ->
            AnySlice([i \in 1..Len(node.Content) |-> decode(node.Content[i])])
      [] node.Kind = "mapping" ->
            AnyMap([i \in 1..Len(node.Content) |->
                       <<node.Content[i][1], decode(node.Content[i][2])>>])

\* dst.MapIndex(key).IsValid(), dst.MapIndex(key), dst.SetMapIndex(key, v)
anyMapHas(dst, key) == \E i \in 1..Len(dst.Content) : dst.Content[i][1] = key

anyMapIndex(dst, key) ==
    dst.Content[CHOOSE i \in 1..Len(dst.Content) : dst.Content[i][1] = key][2]

anyMapSet(dst, key, v) ==
    IF anyMapHas(dst, key)
    THEN [dst EXCEPT !.Content = [i \in 1..Len(dst.Content) |->
                                    IF dst.Content[i][1] = key THEN <<key, v>>
                                    ELSE dst.Content[i]]]
    ELSE [dst EXCEPT !.Content = Append(dst.Content, <<key, v>>)]

\* mergeArrays with a []interface{} destination, for the items from ix on:
\* the item is assigned to a temporary of the dynamic type of each element
\* of cp and skipped when the two are equal; any other item is assigned to a
\* new interface{} element, which takes the decoded value
RECURSIVE mergeAnyArraysFrom(_, _, _, _, _)
mergeAnyArraysFrom(cp, items, ix, skipDedup, changed) ==
    IF ix > Len(items) THEN Result(AnySlice(cp), changed, "")
    ELSE IF (~skipDedup) /\ \E i \in 1..Len(cp) :
                                cp[i].Kind = decode(items[ix]).Kind /\ cp[i] = decode(items[ix])
    THEN mergeAnyArraysFrom(cp, items, ix + 1, skipDedup, changed)
    ELSE mergeAnyArraysFrom(Append(cp, decode(items[ix])), items, ix + 1, skipDedup, TRUE)

mergeAnyArrays(dst, src, overwrite) ==
    IF ~isList(src) THEN Result(dst, FALSE, "notAssignable")
    ELSE mergeAnyArraysFrom(IF overwrite THEN <<>> ELSE dst.Content, src.Content, 1,
                            overwrite \/ Len(dst.Content) = 0, overwrite)

\* mergeMaps with a map[string]interface{} destination
RECURSIVE mergeAnyMaps(_, _, _, _)
RECURSIVE mergeAnyMapsFrom(_, _, _, _, _, _)

\* the callback for a key whose value is a map: r is the merge into it; the
\* map is changed in place
mergeAnyMapsInMap(m, dst, pairs, ix, overwrite, changed, r) ==
    IF r.err # "" THEN Result(anyMapSet(dst, pairs[ix][1], r.val), changed, r.err)
    ELSE mergeAnyMapsFrom(m, anyMapSet(dst, pairs[ix][1], r.val), pairs, ix + 1,
                          overwrite, changed \/ r.changed)

\* the callback for a key whose value is a slice: r is the merged slice
mergeAnyMapsInSlice(m, dst, pairs, ix, overwrite, changed, r) ==
    IF r.err # "" THEN Result(dst, changed, r.err)
    ELSE mergeAnyMapsFrom(m, IF r.changed THEN anyMapSet(dst, pairs[ix][1], r.val) ELSE dst,
                          pairs, ix + 1, overwrite, changed \/ r.changed)

\* the callback for a key the map has, with the value dstVal
mergeAnyMapsPresent(m, dst, pairs, ix, overwrite, changed, dstVal) ==
    CASE dstVal.Kind = "map" ->
            mergeAnyMapsInMap(m, dst, pairs, ix, overwrite, changed,
                mergeAnyMaps(m, dstVal, pairs[ix][2],
                             overwrite \/ mustOverwrite(m, pairs[ix][1])))
      [] dstVal.Kind = "slice" ->
            mergeAnyMapsInSlice(m, dst, pairs, ix, overwrite, changed,
                mergeAnyArrays(dstVal, pairs[ix][2],
                               overwrite \/ mustOverwrite(m, pairs[ix][1])))
      [] OTHER ->
            IF dstVal.Value # "" THEN mergeAnyMapsFrom(m, dst, pairs, ix + 1, overwrite, changed)
            ELSE IF pairs[ix][2].Kind = "scalar"
            THEN mergeAnyMapsFrom(m, anyMapSet(dst, pairs[ix][1], decode(pairs[ix][2])),
                                  pairs, ix + 1, overwrite, changed)
            ELSE Result(dst, changed, "notAssignable")

\* the foreachKey callback for the pairs from ix on: a key the map lacks is
\* set to a new interface{} element, to which assignValue assigns the
\* decoded value whatever it is
mergeAnyMapsFrom(m, dst, pairs, ix, overwrite, changed) ==
    IF ix > Len(pairs) THEN Result(dst, changed, "")
    ELSE IF keyKind(pairs[ix][1]) # "string" THEN Result(dst, changed, "panic")
    ELSE IF ~anyMapHas(dst, pairs[ix][1])
    THEN mergeAnyMapsFrom(m, anyMapSet(dst, pairs[ix][1], decode(pairs[ix][2])),
                          pairs, ix + 1, overwrite, TRUE)
    ELSE mergeAnyMapsPresent(m, dst, pairs, ix, overwrite, changed,
                             anyMapIndex(dst, pairs[ix][1]))

mergeAnyMaps(m, dst, src, overwrite) ==
    IF ~isMap(src) THEN Result(dst, FALSE, "")
    ELSE mergeAnyMapsFrom(m, IF overwrite THEN AnyMap(<<>>) ELSE dst, src.Content, 1,
                          overwrite, FALSE)

\* the documents of the map specification: one key, the scalar s or the
\* list l, or none, and a `config` block or none
AnyBodies ==
    {<<>>}
    \cup {<< <<"s", ScalarNode(v, 2)>> >> : v \in ScalarVals}
    \cup {<< <<"l", SequenceNode(ScalarItems(b, 2), 2)>> >> : b \in {<<"a">>, <<"b">>, <<"a", "b">>}}

AnyDocs ==
    {Document(b, ow, stop) : b \in AnyBodies, ow \in {<<>>, <<"s">>, <<"l">>},
                             stop \in {"", "true"}}

\* --------------------------------------------------------------- the state
VARIABLES
    pc,          \* the statement the call is at
    fs,          \* the candidate files: path -> content
    homeOutside, \* f.home is not a prefix of f.workDir
    sources,     \* the []ConfigSource of LoadAllConfigSources
    initial,     \* history: the destination as the caller passed it in
    options,     \* the destination
    m,           \* the Merger of the call
    configStop,  \* the flag captured by defaultFilterOut's closure
    idx,         \* the position of the range loop over sources
    err,         \* the error the call returned, "" for nil
    trace,       \* history: what was done to which source, in order
    heap         \* the slices that a caller of Merge holds, by address

vars ==
    <<pc, fs, homeOutside, sources, initial, options, m, configStop, idx, err, trace, heap>>

\* no caller of Merge
NoHeap == [mem |-> <<>>, common |-> 0, stuff |-> <<>>]

Event(op, i) == [op |-> op, idx |-> i]

\* a caller of LoadAllConfigSources with up to MaxDocs documents about one field
InitSources ==
    /\ pc = "LoadAllConfigSources"
    /\ fs = [p \in Paths |-> NoFile]
    /\ homeOutside = FALSE
    /\ \E f \in TopFields, n \in 0..MaxDocs :
         /\ \E d \in [1..n -> Docs(f)] :
               sources = [i \in 1..n |-> ConfigSource(d[i], <<"doc", i>>)]
         /\ options \in IF f \in {"s", "t"} THEN {ZeroOptions, DefaultOptions}
                        ELSE {ZeroOptions}

\* a caller of LoadAllConfigs over a file system
InitFiles ==
    /\ pc = "LoadAllConfigs"
    /\ fs \in [Paths -> FileContents]
    /\ homeOutside \in BOOLEAN
    /\ (~homeOutside) => fs[Home] = NoFile
    /\ sources = <<>>
    /\ options = ZeroOptions

Init ==
    /\ InitSources \/ InitFiles
    /\ initial = options
    /\ m = NewMerger
    /\ configStop = FALSE
    /\ idx = 0
    /\ err = ""
    /\ trace = <<>>
    /\ heap = NoHeap

\* LoadAllConfigs: read every candidate, most specific first, then merge
LoadAllConfigs ==
    /\ pc = "LoadAllConfigs"
    /\ \E paths \in {<<Etc>> \o FindParentPaths(homeOutside, fs)} :
       \E r \in {readPathsInReverse(fs, paths, Len(paths), <<>>)} :
          IF r.err # ""
          THEN pc' = "done" /\ err' = r.err /\ UNCHANGED sources
          ELSE pc' = "LoadAllConfigSources" /\ sources' = r.sources /\ UNCHANGED err
    /\ UNCHANGED <<heap, fs, homeOutside, initial, options, m, configStop, idx, trace>>

\* variant: the closure of an earlier call is used again
newConfigStop_Shared(previous) == previous

\* the configStop that a new defaultFilterOut closure captures, whatever the
\* closure of an earlier call was left with
newConfigStop(previous) == FALSE

\* LoadAllConfigSources up to the loop: NewMerger and a new defaultFilterOut
LoadAllConfigSources ==
    /\ pc = "LoadAllConfigSources"
    /\ m' = NewMerger
    /\ configStop' = newConfigStop(configStop)
    /\ idx' = 1
    /\ pc' = "range"
    /\ UNCHANGED <<heap, fs, homeOutside, sources, initial, options, err, trace>>

\* the range loop is over: return nil
Return ==
    /\ pc = "range"
    /\ idx > Len(sources)
    /\ pc' = "done"
    /\ UNCHANGED <<heap, fs, homeOutside, sources, initial, options, m, configStop, idx, err, trace>>

\* automatically skip empty configs
SkipEmpty ==
    /\ pc = "range"
    /\ idx <= Len(sources)
    /\ IsZero(sources[idx].Config)
    /\ idx' = idx + 1
    /\ trace' = Append(trace, Event("empty", idx))
    /\ UNCHANGED <<pc, heap, fs, homeOutside, sources, initial, options, m, configStop, err>>

\* variant: a document that declares stop is itself filtered out
defaultFilterOut_SkipStopper(stopped, config) ==
    LET stop == GetKey(GetKey(config, "config"), "stop")
        now == stopped \/ (stop # NilNode /\ ParseBool(stop.Value))
    IN  [skip |-> now, configStop |-> now]

\* defaultFilterOut's closure: [skip, the new configStop]
defaultFilterOut(stopped, config) ==
    IF stopped THEN [skip |-> TRUE, configStop |-> stopped]
    ELSE LET pragma == GetKey(config, "config")
             stop == GetKey(pragma, "stop")
         IN  [skip |-> FALSE,
              configStop |-> IF pragma # NilNode /\ stop # NilNode
                             THEN ParseBool(stop.Value) ELSE stopped]

\* skip := filterOut(source.Config), then continue or m.sourceFile = Filename
FilterOut ==
    /\ pc = "range"
    /\ idx <= Len(sources)
    /\ ~IsZero(sources[idx].Config)
    /\ \E r \in {defaultFilterOut(configStop, sources[idx].Config)} :
           /\ configStop' = r.configStop
           /\ IF r.skip
              THEN /\ idx' = idx + 1
                   /\ trace' = Append(trace, Event("skip", idx))
                   /\ UNCHANGED <<pc, m>>
              ELSE /\ m' = [m EXCEPT !.sourceFile = sources[idx].Filename]
                   /\ pc' = "Decode"
                   /\ UNCHANGED <<idx, trace>>
    /\ UNCHANGED <<heap, fs, homeOutside, sources, initial, options, err>>

\* the `config: {overwrite: [...]}` block as config.Decode(m) stores it: a
\* document without the key leaves m.Config.Overwrite as it is
decodeOverwrite(current, config) ==
    LET node == GetKey(GetKey(config, "config"), "overwrite")
    IN  IF node = NilNode THEN current
        ELSE [i \in 1..Len(node.Content) |-> node.Content[i].Value]

\* loadConfigSource, first half: config.Decode(m)
Decode ==
    /\ pc = "Decode"
    /\ m' = [m EXCEPT !.Overwrite = decodeOverwrite(m.Overwrite, sources[idx].Config)]
    /\ pc' = "mergeStructs"
    /\ UNCHANGED <<heap, fs, homeOutside, sources, initial, options, configStop, idx, err, trace>>

\* loadConfigSource, second half: m.mergeStructs(options, config, false); an
\* error ends LoadAllConfigSources, a panic unwinds through it
MergeStructs ==
    /\ pc = "mergeStructs"
    /\ \E r \in {mergeStructs(m, "top", options, sources[idx].Config, FALSE)} :
          /\ options' = r.val
          /\ trace' = Append(trace, Event("merge", idx))
          /\ IF r.err = "panic"
             THEN pc' = "panic" /\ UNCHANGED err
             ELSE IF r.err # ""
             THEN pc' = "done" /\ err' = r.err
             ELSE pc' = "advance" /\ UNCHANGED err
    /\ UNCHANGED <<heap, fs, homeOutside, sources, initial, m, configStop, idx>>

\* m.advance(), and on to the next source
Advance ==
    /\ pc = "advance"
    /\ m' = advance(m)
    /\ idx' = idx + 1
    /\ pc' = "range"
    /\ trace' = Append(trace, Event("advance", idx))
    /\ UNCHANGED <<heap, fs, homeOutside, sources, initial, options, configStop, err>>

Next ==
    \/ LoadAllConfigs
    \/ LoadAllConfigSources
    \/ Return
    \/ SkipEmpty
    \/ FilterOut
    \/ Decode
    \/ MergeStructs
    \/ Advance

Spec == Init /\ [][Next]_vars

\* ------------------------------------------------------ history predicates
Merged(i) == \E k \in 1..Len(trace) : trace[k] = Event("merge", i)
Advanced(i) == \E k \in 1..Len(trace) : trace[k] = Event("advance", i)
Skipped(i) == \E k \in 1..Len(trace) : trace[k] = Event("skip", i)

Range(seq) == {seq[i] : i \in 1..Len(seq)}

\* the document's `config.stop` reads as true
DeclaresStop(config) == ParseBool(GetKey(GetKey(config, "config"), "stop").Value)

\* the names of the document's `config.overwrite` list
OverwriteOf(config) == Range(decodeOverwrite(<<>>, config))

\* the document has content for the top-level field f
Defines(config, f) == GetKey(config, f) # NilNode

\* the positions of the documents that stand before position i, are not
\* empty and declare stop
StoppersBefore(i) ==
    {j \in 1..(i - 1) : ~IsZero(sources[j].Config) /\ DeclaresStop(sources[j].Config)}

\* ----------------------------------------------------------------- C1
\* C1: once a document whose config.stop is true has been merged, no later
\* document is merged (a later step changes neither the destination nor the
\* ignore list, and the Overwrite list stays empty), while a stopping document
\* that no earlier stop precedes is itself merged and advanced like any other.
C1_StopStep ==
    \A i \in 1..Len(sources) :
        (Merged(i) /\ DeclaresStop(sources[i].Config) /\ idx > i)
        => /\ options' = options
           /\ m'.ignore = m.ignore
           /\ m'.Overwrite = <<>>
           /\ \A j \in (i + 1)..Len(sources) : ~Merged(j)'

C1_Processed ==
    \A i \in 1..Len(sources) :
        (i < idx /\ ~IsZero(sources[i].Config))
        => /\ (Merged(i) /\ Advanced(i)) <=> (StoppersBefore(i) = {})
           /\ Skipped(i) <=> (StoppersBefore(i) # {})

C1_StopHalts == [](C1_Processed) /\ [][C1_StopStep]_vars

\* a finished call in which a stopping document that defines s was merged,
\* gave s its value and provenance, and a later document with content and an
\* overwrite directive was skipped
C1_Witness ==
    /\ pc = "done"
    /\ \E i, j \in 1..Len(sources) :
         /\ i < j
         /\ DeclaresStop(sources[i].Config) /\ Merged(i)
         /\ Defines(sources[i].Config, "s")
         /\ options.s.Source.Name = sources[i].Filename
         /\ Skipped(j)
         /\ Defines(sources[j].Config, "s")
         /\ OverwriteOf(sources[j].Config) # {}

\* ----------------------------------------------------------------- C2
\* C2: after a document that declares overwrite [f] has been merged, no step
\* of the call changes the destination's field f, value or provenance.
C2_Step ==
    \A f \in TopFields :
        (\E i \in 1..Len(sources) : Merged(i) /\ f \in OverwriteOf(sources[i].Config))
        => options'[f] = options[f]

C2_OverwrittenFieldIsFrozen == [][C2_Step]_vars

\* a finished call in which a document that defines the list l was merged
\* after a document that declared overwrite [l], with content the list lacks
C2_Witness ==
    /\ pc = "done"
    /\ \E i, j \in 1..Len(sources) :
         /\ i < j /\ Merged(i) /\ Merged(j)
         /\ "l" \in OverwriteOf(sources[i].Config)
         /\ Defines(sources[j].Config, "l")
         /\ \E k \in 1..Len(GetKey(sources[j].Config, "l").Content) :
               \A e \in 1..Len(options.l) :
                   GetValue(options.l[e]) # GetKey(sources[j].Config, "l").Content[k].Value

\* ----------------------------------------------------------------- C7
IsPrefix(a, b) == Len(a) <= Len(b) /\ SubSeq(b, 1, Len(a)) = a

\* C7: the ignore list only grows by appending, and it holds exactly the
\* names of the overwrite lists of the documents merged and advanced so far.
C7_IgnoreIsUnion ==
    Range(m.ignore) =
        UNION {OverwriteOf(sources[i].Config) :
                 i \in {j \in 1..Len(sources) : Advanced(j)}}

C7_IgnoreAppendOnly == [](C7_IgnoreIsUnion) /\ [][IsPrefix(m.ignore, m'.ignore)]_vars

\* a finished call whose two documents both had an overwrite list, the second
\* adding a name the first lacked
C7_Witness ==
    /\ pc = "done"
    /\ \E i, j \in 1..Len(sources) :
         /\ i < j /\ Advanced(i) /\ Advanced(j)
         /\ OverwriteOf(sources[i].Config) # {}
         /\ OverwriteOf(sources[j].Config) \ OverwriteOf(sources[i].Config) # {}
    /\ Len(m.ignore) = 2

\* ----------------------------------------------------------------- C8
\* C8: every merged document is merged once and advanced once, the advance
\* following its merge at once; the Overwrite list is the current document's
\* own list while it is merged and empty between documents, and the names
\* reach the ignore list only with the advance.
C8_Once ==
    \A k \in 1..Len(trace) :
        /\ \A k2 \in 1..Len(trace) : trace[k2] = trace[k] => k2 = k
        /\ trace[k].op = "merge" =>
              IF k < Len(trace) THEN trace[k + 1] = Event("advance", trace[k].idx)
              ELSE /\ idx = trace[k].idx
                   /\ pc = "advance" \/ (pc = "done" /\ err # "")
        /\ trace[k].op = "advance" =>
              k > 1 /\ trace[k - 1] = Event("merge", trace[k].idx)

C8_InForce ==
    /\ pc \in {"mergeStructs", "advance"} =>
          /\ m.Overwrite = decodeOverwrite(<<>>, sources[idx].Config)
          /\ ~Advanced(idx)
          /\ \A name \in Range(m.ignore) :
                \E i \in 1..(idx - 1) :
                    Advanced(i) /\ name \in OverwriteOf(sources[i].Config)
    /\ (pc \in {"range", "Decode"} \/ (pc = "done" /\ err = "")) => m.Overwrite = <<>>

C8_MergeThenAdvance == C8_Once /\ C8_InForce

\* a second document without an overwrite list is being merged after a first
\* one whose list is by now in the ignore list
C8_Witness ==
    /\ pc = "mergeStructs"
    /\ idx = 2
    /\ Advanced(1)
    /\ OverwriteOf(sources[1].Config) # {}
    /\ OverwriteOf(sources[2].Config) = {}
    /\ Range(m.ignore) = OverwriteOf(sources[1].Config)

\* ------------------------------------------------- precedence: C3, C4, C5
\* an Option assigned from the scalar node of the file
FromDoc(node, filename) ==
    [Source |-> NewSource(filename, coordOf(node)), Defined |-> TRUE, Value |-> node.Value]

\* the values of a ListStringOption, and of the items of a sequence node
ValuesOf(list) == [i \in 1..Len(list) |-> GetValue(list[i])]
NodeValues(node) == [i \in 1..Len(node.Content) |-> node.Content[i].Value]

\* the keys of a mapping node
NodeKeys(node) == {node.Content[i][1] : i \in 1..Len(node.Content)}

\* seq without the elements that occurred earlier in it
RECURSIVE Uniq(_)
Uniq(seq) ==
    IF seq = <<>> THEN <<>>
    ELSE LET front == Uniq(SubSeq(seq, 1, Len(seq) - 1))
             last == seq[Len(seq)]
         IN  IF last \in Range(front) THEN front ELSE Append(front, last)

\* no document carries a `config` block
NoDirectives ==
    \A i \in 1..Len(sources) : GetKey(sources[i].Config, "config") = NilNode

\* ----------------------------------------------------------------- C3
\* the destination's field f holds the content of the document's node for f
\* and nothing else; an Option the node does not mention is unset or as the
\* caller passed it in
SolelyFrom(f, node, filename) ==
    CASE f = "s" -> options.s = FromDoc(node, filename)
      [] f = "p" -> options.p = node.Value
      [] f = "l" ->
            /\ ValuesOf(options.l) = NodeValues(node)
            /\ \A i \in 1..Len(options.l) : options.l[i].Source.Name = filename
      [] f = "m" ->
            /\ DOMAIN options.m = NodeKeys(node)
            /\ \A k \in DOMAIN options.m : options.m[k] = FromDoc(GetKey(node, k), filename)
      [] f = "t" ->
            \A sf \in SubFields :
                IF sf \in NodeKeys(node)
                THEN options.t[sf] = FromDoc(GetKey(node, sf), filename)
                ELSE options.t[sf] \in {ZeroOption, initial.t[sf]}

\* C3 (as the specification states it): right after the merge of a document
\* that declares overwrite [f] and defines f, with f not frozen by an earlier
\* document, the destination's f consists solely of that document's content.
C3_OverwriteReplaces ==
    \A f \in TopFields :
        (/\ pc = "advance"
         /\ f \in Range(m.Overwrite)
         /\ ~mustIgnore(m, f)
         /\ Defines(sources[idx].Config, f))
        => SolelyFrom(f, GetKey(sources[idx].Config, f), sources[idx].Filename)

\* the same restricted to the scalars, the slice and the map
C3_OverwriteReplacesFlat ==
    \A f \in TopFields \ {"t"} :
        (/\ pc = "advance"
         /\ f \in Range(m.Overwrite)
         /\ ~mustIgnore(m, f)
         /\ Defines(sources[idx].Config, f))
        => SolelyFrom(f, GetKey(sources[idx].Config, f), sources[idx].Filename)

\* the second document, declaring overwrite [t], has just been merged over a
\* first one that defined t
C3_Witness ==
    /\ pc = "advance"
    /\ idx = 2
    /\ Merged(1)
    /\ Defines(sources[1].Config, "t")
    /\ Defines(sources[2].Config, "t")
    /\ "t" \in Range(m.Overwrite)

\* ----------------------------------------------------------------- C4
\* two documents A then B, both merged, neither with a `config` block
C4_Pre ==
    /\ pc = "done" /\ err = ""
    /\ Len(sources) = 2
    /\ NoDirectives
    /\ Merged(1) /\ Merged(2)

\* the destination's field f shows the content of node: the scalar's value,
\* every item of the list, every key of the map and every field of the struct
Holds(f, node) ==
    CASE f = "s" -> IsDefined(options.s) /\ GetValue(options.s) = node.Value
      [] f = "p" -> options.p = node.Value
      [] f = "l" -> Range(NodeValues(node)) \subseteq Range(ValuesOf(options.l))
      [] f = "m" -> \A k \in NodeKeys(node) :
                        /\ k \in DOMAIN options.m
                        /\ GetValue(options.m[k]) = GetKey(node, k).Value
      [] f = "t" -> \A sf \in NodeKeys(node) :
                        GetValue(options.t[sf]) = GetKey(node, sf).Value

\* what B adds to a field that A defined as well: the list items, map keys
\* and struct fields that A lacks, and nothing for a scalar
AddsOnlyMissing(f, a, b, fileB) ==
    CASE f = "s" -> options.s.Source.Name # fileB
      [] f = "p" -> TRUE
      [] f = "l" ->
            ValuesOf(options.l) =
                NodeValues(a) \o Uniq(SelectSeq(NodeValues(b),
                                                LAMBDA v : v \notin Range(NodeValues(a))))
      [] f = "m" ->
            /\ DOMAIN options.m = NodeKeys(a) \cup NodeKeys(b)
            /\ \A k \in NodeKeys(b) \ NodeKeys(a) :
                  options.m[k] = FromDoc(GetKey(b, k), fileB)
      [] f = "t" ->
            \A sf \in NodeKeys(b) \ NodeKeys(a) :
                options.t[sf] = FromDoc(GetKey(b, sf), fileB)

\* C4 (as the specification states it): after A then B, every field B defines
\* holds B's value, and every field B does not define retains A's.
C4_LaterWins ==
    C4_Pre =>
        \A f \in TopFields :
            LET a == GetKey(sources[1].Config, f)
                b == GetKey(sources[2].Config, f)
            IN  /\ b # NilNode => Holds(f, b)
                /\ (b = NilNode /\ a # NilNode) => Holds(f, a)

\* C4 (as the code has it): after A then B, every field A defines holds A's
\* content, a field only B defines holds B's, and to a field both define B
\* adds only the list items, map keys and struct fields that A lacks.
C4_EarlierWins ==
    C4_Pre =>
        \A f \in TopFields :
            LET a == GetKey(sources[1].Config, f)
                b == GetKey(sources[2].Config, f)
            IN  /\ a # NilNode => Holds(f, a)
                /\ (a = NilNode /\ b # NilNode) => Holds(f, b)
                /\ (a # NilNode /\ b # NilNode) =>
                      AddsOnlyMissing(f, a, b, sources[2].Filename)
                /\ (a = NilNode /\ b = NilNode) => options[f] = initial[f]

\* A and B give the plain string p different values and p has A's
C4_Witness ==
    /\ C4_Pre
    /\ Defines(sources[1].Config, "p")
    /\ Defines(sources[2].Config, "p")
    /\ GetKey(sources[1].Config, "p").Value # GetKey(sources[2].Config, "p").Value
    /\ options.p = GetKey(sources[1].Config, "p").Value

\* ----------------------------------------------------------------- C5
\* the positions of the documents that define the Option s
Definers == {i \in 1..Len(sources) : Defines(sources[i].Config, "s")}

\* C5: without overwrite and stop directives the Option s ends with the value
\* and SourceLocation of the first document that defines it (as the caller
\* passed it in when none does), and once that document is merged no later
\* step changes s.
C5_Final ==
    (pc = "done" /\ err = "" /\ NoDirectives) =>
        IF Definers = {} THEN options.s = initial.s
        ELSE LET i == CHOOSE d \in Definers : \A e \in Definers : d <= e
             IN  options.s = FromDoc(GetKey(sources[i].Config, "s"), sources[i].Filename)

C5_Step ==
    (NoDirectives /\ \E i \in Definers : Merged(i)) => options'.s = options.s

C5_FirstDefinitionWins == [](C5_Final) /\ [][C5_Step]_vars

\* two documents gave s different values over a default, and s has the first
\* one's value and location
C5_Witness ==
    /\ pc = "done" /\ err = "" /\ NoDirectives
    /\ IsDefault(initial.s)
    /\ Definers = {1, 2}
    /\ GetKey(sources[1].Config, "s").Value # GetKey(sources[2].Config, "s").Value
    /\ options.s = FromDoc(GetKey(sources[1].Config, "s"), sources[1].Filename)

\* ----------------------------------------------------------------- C6
\* how specific a candidate file is: /etc, the home directory, then the
\* directories from the root down to the working directory
Rank(file) ==
    CASE file = Etc -> 0
      [] file = Home -> 1
      [] OTHER -> file[2] + 1

\* the call came through LoadAllConfigs and has read its files
FromFiles ==
    /\ pc \notin {"LoadAllConfigs"}
    /\ Len(sources) > 0
    /\ \A i \in 1..Len(sources) : sources[i].Filename \in Paths

\* the documents are taken up strictly one after another
InSequence ==
    \A k, k2 \in 1..Len(trace) : k < k2 => trace[k].idx <= trace[k2].idx

\* C6 (as the specification states it): the documents of LoadAllConfigs are
\* merged one after another from the most general to the most specific.
C6_GeneralToSpecific ==
    FromFiles =>
        /\ InSequence
        /\ \A i, j \in 1..Len(sources) :
              i < j => Rank(sources[i].Filename) < Rank(sources[j].Filename)

\* C6 (as the code has it): the documents of LoadAllConfigs are every file
\* found, merged one after another from the most specific (the working
\* directory's) up the ancestors, then the home directory's, /etc last.
C6_SpecificToGeneral ==
    FromFiles =>
        /\ InSequence
        /\ \A i, j \in 1..Len(sources) :
              i < j => Rank(sources[i].Filename) > Rank(sources[j].Filename)
        /\ {sources[i].Filename : i \in 1..Len(sources)} = {p \in Paths : Exists(fs[p])}

\* a finished call that merged a file of every candidate path, the working
\* directory's first and /etc last
C6_Witness ==
    /\ pc = "done" /\ err = ""
    /\ FromFiles
    /\ Len(sources) = Depth + 2
    /\ \A i \in 1..Len(sources) : Merged(i)
    /\ trace[1] = Event("merge", 1)
    /\ sources[1].Filename = Dir(Depth)
    /\ sources[Len(sources)].Filename = Etc

\* ------------------------------------------------- the slice specification
\* the lists of 1..n elements of S
ListsUpTo(S, n) == UNION {[1..k -> S] : k \in 1..n}

\* a document whose only field is the list l
ListDocument(vals) ==
    Document(<< <<"l", SequenceNode(ScalarItems(vals, 2), 2)>> >>, <<>>, "")

\* a caller of LoadAllConfigSources with two documents that hold a list each:
\* up to MaxLen of a and b, then up to MaxLen - 1 of a, b and c
InitSlices ==
    /\ pc = "LoadAllConfigSources"
    /\ fs = [p \in Paths |-> NoFile]
    /\ homeOutside = FALSE
    /\ \E x \in ListsUpTo({"a", "b"}, MaxLen), y \in ListsUpTo({"a", "b", "c"}, MaxLen - 1) :
          sources = <<ConfigSource(ListDocument(x), <<"doc", 1>>),
                      ConfigSource(ListDocument(y), <<"doc", 2>>)>>
    /\ options = ZeroOptions
    /\ initial = options
    /\ m = NewMerger
    /\ configStop = FALSE
    /\ idx = 0
    /\ err = ""
    /\ trace = <<>>
    /\ heap = NoHeap

NextSlices ==
    \/ LoadAllConfigSources
    \/ Return
    \/ FilterOut
    \/ Decode
    \/ MergeStructs
    \/ Advance

SpecSlices == InitSlices /\ [][NextSlices]_vars

\* the list of the document at position i
ListOf(i) == NodeValues(GetKey(sources[i].Config, "l"))

\* ----------------------------------------------------------------- C9
\* C9: [a,b,a,a] and then [a,b,c] end as [a,b,a,a,c]; in general the first
\* document's elements are all kept in order, repeats included, with the
\* first document as their source, and every element appended after them
\* comes from the second document and equals none of the first's.
C9_KeepsPrimaryDups ==
    (pc = "done" /\ err = "") =>
        /\ (ListOf(1) = <<"a", "b", "a", "a">> /\ ListOf(2) = <<"a", "b", "c">>)
              => ValuesOf(options.l) = <<"a", "b", "a", "a", "c">>
        /\ Len(options.l) >= Len(ListOf(1))
        /\ SubSeq(ValuesOf(options.l), 1, Len(ListOf(1))) = ListOf(1)
        /\ \A i \in 1..Len(options.l) :
              IF i <= Len(ListOf(1))
              THEN options.l[i].Source.Name = sources[1].Filename
              ELSE /\ options.l[i].Source.Name = sources[2].Filename
                   /\ GetValue(options.l[i]) \in Range(ListOf(2)) \ Range(ListOf(1))
        /\ Range(ListOf(2)) \subseteq Range(ValuesOf(options.l))

C9_Witness ==
    /\ pc = "done" /\ err = ""
    /\ ListOf(1) = <<"a", "b", "a", "a">>
    /\ ListOf(2) = <<"a", "b", "c">>
    /\ ValuesOf(options.l) = <<"a", "b", "a", "a", "c">>

\* ----------------------------------------------------------------- C10
\* C10 (as the specification states it): an incoming element is compared only
\* with what the slice held before its document's merge, so the second
\* document adds each of its elements that the first lacks, repeats included.
C10_NoDedupWithinDocument ==
    (pc = "done" /\ err = "") =>
        ValuesOf(options.l) =
            ListOf(1) \o SelectSeq(ListOf(2), LAMBDA v : v \notin Range(ListOf(1)))

\* C10 (as the code has it): a document merged into an empty slice is taken
\* over whole, repeats included; merged into a non-empty slice, each element
\* is compared with the slice as it has grown so far, so an element repeated
\* within the document is appended once.
C10_Step ==
    pc = "mergeStructs" =>
        LET before == ValuesOf(options.l)
            incoming == ListOf(idx)
        IN  ValuesOf(options'.l) =
                IF before = <<>> THEN incoming
                ELSE before \o Uniq(SelectSeq(incoming, LAMBDA v : v \notin Range(before)))

C10_DedupAgainstGrowingSlice == [][C10_Step]_vars

\* the second document repeated an element the first lacked, and the slice
\* has it once; the first document's own repeat is kept
C10_Witness ==
    /\ pc = "done" /\ err = ""
    /\ ListOf(1) = <<"a", "a">>
    /\ ListOf(2) = <<"c", "c">>
    /\ ValuesOf(options.l) = <<"a", "a", "c">>

\* -------------------------------------------------- the pair specification
\* scalars of the pair specification: the zero literal besides a and b
PairVals == {"", "a", "b"}

\* the bodies a document of the pair specification gives field f
PairBodies(f) ==
    {<<>>} \cup
    CASE f \in {"s", "p"} -> {<< <<f, ScalarNode(v, 2)>> >> : v \in PairVals}
      [] f = "a" -> {<< <<f, SequenceNode(ScalarItems(b, 2), 2)>> >> :
                        b \in ListsUpTo(ScalarVals, ArrayLen + 1)}
      [] OTHER -> Bodies(f)

PairDocs(f) == {Document(b, ow, "") : b \in PairBodies(f), ow \in {<<>>, <<f>>}}

\* a destination the caller filled with NewOption defaults, in the struct,
\* the slice, the map and the array
PairDefaults ==
    [s |-> NewOption("a"), p |-> "", l |-> <<NewOption("a")>>,
     m |-> [k \in {"k1"} |-> NewOption("a")],
     t |-> [ZeroSub EXCEPT !.s = NewOption("a")],
     a |-> [ZeroArray EXCEPT ![1] = NewOption("a")],
     r |-> <<>>]

\* a caller of LoadAllConfigSources with two documents about one field, and
\* a destination that is zero or holds defaults
InitPair ==
    /\ pc = "LoadAllConfigSources"
    /\ fs = [p \in Paths |-> NoFile]
    /\ homeOutside = FALSE
    /\ \E f \in AllFields : \E x \in PairDocs(f), y \in PairDocs(f) :
          sources = <<ConfigSource(x, <<"doc", 1>>), ConfigSource(y, <<"doc", 2>>)>>
    /\ options \in {ZeroOptions, PairDefaults}
    /\ initial = options
    /\ m = NewMerger
    /\ configStop = FALSE
    /\ idx = 0
    /\ err = ""
    /\ trace = <<>>
    /\ heap = NoHeap

SpecPair == InitPair /\ [][NextSlices]_vars

\* ----------------------------------------------------------------- C11
\* C11: merging the same document a second time, right after its first
\* merge, leaves the destination as the first merge left it: values,
\* provenance, slice and array contents, map contents.
C11_Step ==
    (/\ pc = "mergeStructs" /\ idx = 2
     /\ Merged(1)
     /\ sources[2].Config = sources[1].Config) => options' = options

C12_Step ==
    (/\ pc = "mergeStructs"
     /\ Defines(sources[idx].Config, "a")
     /\ ~mustIgnore(m, "a")) =>
        LET node == GetKey(sources[idx].Config, "a")
        IN  /\ err' = ""
            /\ Len(options'.a) = ArrayLen
            /\ \A i \in 1..ArrayLen :
                  options'.a[i] =
                     IF /\ i <= Len(node.Content)
                        /\ \/ options.a[i] = ZeroOption
                           \/ ~IsDefined(options.a[i])
                           \/ IsDefault(options.a[i])
                           \/ mustOverwrite(m, "a")
                     THEN FromDoc(node.Content[i], sources[idx].Filename)
                     ELSE options.a[i]

C12_ArrayFillsByIndex == [][C12_Step]_vars

\* a list of ArrayLen + 1 items filled the array, default element included,
\* and the second document's list, without overwrite, changed nothing
C12_Witness ==
    /\ pc = "done" /\ err = ""
    /\ Merged(1) /\ Merged(2)
    /\ initial = PairDefaults
    /\ NoDirectives
    /\ Len(NodeValues(GetKey(sources[1].Config, "a"))) = ArrayLen + 1
    /\ Defines(sources[2].Config, "a")
    /\ NodeValues(GetKey(sources[2].Config, "a"))[1] # NodeValues(GetKey(sources[1].Config, "a"))[1]
    /\ Len(options.a) = ArrayLen
    /\ \A i \in 1..ArrayLen :
          options.a[i] = FromDoc(GetKey(sources[1].Config, "a").Content[i], <<"doc", 1>>)

\* ----------------------------------------------------------------- C13
\* the Option o gives way to the document's node: it held a default and now
\* holds the node's value with the document's file and line
Replaced(o, after, node, filename) ==
    (IsDefined(o) /\ IsDefault(o)) => after = FromDoc(node, filename)

\* the default-sourced Options of the struct, the nested struct and the
\* array for which the document at idx has a value give way to it
C13_OutsideMaps ==
    LET config == sources[idx].Config
        file == sources[idx].Filename
    IN  /\ (Defines(config, "s") /\ ~mustIgnore(m, "s")) =>
              Replaced(options.s, options'.s, GetKey(config, "s"), file)
        /\ (Defines(config, "t") /\ ~mustIgnore(m, "t")) =>
              \A sf \in NodeKeys(GetKey(config, "t")) :
                  Replaced(options.t[sf], options'.t[sf],
                           GetKey(GetKey(config, "t"), sf), file)
        /\ (Defines(config, "a") /\ ~mustIgnore(m, "a")) =>
              \A i \in 1..ArrayLen :
                  i <= Len(GetKey(config, "a").Content) =>
                      Replaced(options.a[i], options'.a[i],
                               GetKey(config, "a").Content[i], file)

\* the same for the values of the map
C13_InMaps ==
    LET config == sources[idx].Config
    IN  (Defines(config, "m") /\ ~mustIgnore(m, "m")) =>
            \A k \in NodeKeys(GetKey(config, "m")) \cap DOMAIN options.m :
                Replaced(options.m[k], options'.m[k],
                         GetKey(GetKey(config, "m"), k), sources[idx].Filename)

\* C13: whenever a document supplies a value for an Option whose source is
\* `default`, after the merge the Option carries the document's source, also
\* when the values are equal, and whether it is a struct field, a map value
\* or an array element.
C13_DefaultAlwaysGivesWay ==
    [][pc = "mergeStructs" => (C13_OutsideMaps /\ C13_InMaps)]_vars

\* the part that holds: struct fields and array elements
C13_DefaultGivesWayOutsideMaps ==
    [][pc = "mergeStructs" => C13_OutsideMaps]_vars

\* the map held NewOption("a") under k1, the only document gave k1 the value
\* b without any directive, and the map still holds the default
C13_Witness ==
    /\ pc = "done" /\ err = ""
    /\ initial = PairDefaults
    /\ NoDirectives
    /\ Merged(1)
    /\ Defines(sources[1].Config, "m")
    /\ GetKey(GetKey(sources[1].Config, "m"), "k1").Value = "b"
    /\ options.m["k1"] = NewOption("a")

\* ----------------------------------------------------------------- C16
\* the positions of the documents that give the top-level scalar f a value,
\* and of those that give it a value other than the zero literal
DefinersOf(f) == {i \in 1..Len(sources) : Defines(sources[i].Config, f)}
NonZeroDefinersOf(f) ==
    {i \in DefinersOf(f) : GetKey(sources[i].Config, f).Value # ""}

\* C16: when the first document to define the Option s gives it the zero
\* literal "", then from that document's merge on s is defined, with the
\* value "" and that document's file and line, whatever later documents
\* give it (no overwrite directives).
C16_ZeroLiteralDefines ==
    \A i \in DefinersOf("s") :
        (/\ NoDirectives
         /\ Merged(i)
         /\ \A j \in DefinersOf("s") : i <= j
         /\ GetKey(sources[i].Config, "s").Value = "") =>
            options.s = FromDoc(GetKey(sources[i].Config, "s"), sources[i].Filename)

\* the first document gave s the zero literal, the second gave it b, and s
\* is defined and empty, from the first document
C16_Witness ==
    /\ pc = "done" /\ err = ""
    /\ NoDirectives
    /\ Merged(1) /\ Merged(2)
    /\ DefinersOf("s") = {1, 2}
    /\ GetKey(sources[1].Config, "s").Value = ""
    /\ GetKey(sources[2].Config, "s").Value = "b"
    /\ IsDefined(options.s)
    /\ GetValue(options.s) = ""
    /\ options.s.Source.Name = <<"doc", 1>>

\* ----------------------------------------------------------------- C17
\* C17: a document that gives the plain string p the zero literal does not
\* occupy it: after all the documents are merged p has the value of the
\* first document that gives it a non-zero value, if there is one (no
\* overwrite directives).
C17_ZeroLiteralDoesNotOccupy ==
    (/\ pc = "done" /\ err = ""
     /\ NoDirectives
     /\ \A i \in 1..Len(sources) : Merged(i)) =>
        \A i \in NonZeroDefinersOf("p") :
            (\A j \in NonZeroDefinersOf("p") : i <= j) =>
                options.p = GetKey(sources[i].Config, "p").Value

\* the first document gave p the zero literal, the second gave it b, and p
\* is b
C17_Witness ==
    /\ pc = "done" /\ err = ""
    /\ NoDirectives
    /\ Merged(1) /\ Merged(2)
    /\ DefinersOf("p") = {1, 2}
    /\ GetKey(sources[1].Config, "p").Value = ""
    /\ GetKey(sources[2].Config, "p").Value = "b"
    /\ options.p = "b"

\* ----------------------------------------------------------------- C14
\* the Options of a destination, each with the path it sits at: a field, a
\* field of the nested struct, a map key, or the slice or the array (the
\* elements of a slice have no fixed index)
OptionsAt(d) ==
    {<< <<"s">>, d.s >>}
    \cup {<< <<"t", sf>>, d.t[sf] >> : sf \in SubFields}
    \cup {<< <<"m", k>>, d.m[k] >> : k \in DOMAIN d.m}
    \cup {<< <<"l">>, d.l[i] >> : i \in 1..Len(d.l)}
    \cup {<< <<"a", i>>, d.a[i] >> : i \in 1..Len(d.a)}

\* the scalar nodes of a document that stand at the path
NodesAt(config, path) ==
    LET node == GetKey(config, path[1])
    IN  CASE path[1] = "s" -> IF node = NilNode THEN {} ELSE {node}
          [] path[1] \in {"t", "m"} ->
                IF isMap(node) /\ GetKey(node, path[2]) # NilNode
                THEN {GetKey(node, path[2])} ELSE {}
          [] path[1] = "l" -> IF isList(node) THEN Range(node.Content) ELSE {}
          [] path[1] = "a" ->
                IF isList(node) /\ path[2] <= Len(node.Content)
                THEN {node.Content[path[2]]} ELSE {}

\* C14: after LoadAllConfigSources returns, every defined Option of the
\* destination either is as the caller passed it in, or has the value of a
\* node at its path in a merged document together with that document's
\* Filename and that node's line.
C14_ProvenanceMatchesSupplier ==
    pc = "done" =>
        \A e \in OptionsAt(options) :
            IsDefined(e[2]) =>
                \/ e \in OptionsAt(initial)
                \/ \E i \in 1..Len(sources) :
                      /\ Merged(i)
                      /\ \E node \in NodesAt(sources[i].Config, e[1]) :
                            e[2] = FromDoc(node, sources[i].Filename)

\* two documents were merged and the map has a key from each, each with
\* its own document's name
C14_Witness ==
    /\ pc = "done" /\ err = ""
    /\ Merged(1) /\ Merged(2)
    /\ DOMAIN options.m = {"k1", "k2"}
    /\ options.m["k1"].Source.Name = <<"doc", 1>>
    /\ options.m["k2"].Source.Name = <<"doc", 2>>

\* ------------------------------------------------- the two-call specification
\* the fields the documents of the two-call specification are about
TwiceFields == {"s", "l"}

Reverse(seq) == [i \in 1..Len(seq) |-> seq[Len(seq) + 1 - i]]

\* history: the caller calls again; what the first call was given and left
CallEvent(given, returned) ==
    [op |-> "call", idx |-> 0, given |-> given, returned |-> returned]

Recalled == \E k \in 1..Len(trace) : trace[k].op = "call"

\* a caller of LoadAllConfigSources with two documents about one field and a
\* zero destination
InitTwice ==
    /\ pc = "LoadAllConfigSources"
    /\ fs = [p \in Paths |-> NoFile]
    /\ homeOutside = FALSE
    /\ \E f \in TwiceFields : \E x \in Docs(f), y \in Docs(f) :
          sources = <<ConfigSource(x, <<"doc", 1>>), ConfigSource(y, <<"doc", 2>>)>>
    /\ options = ZeroOptions
    /\ initial = options
    /\ m = NewMerger
    /\ configStop = FALSE
    /\ idx = 0
    /\ err = ""
    /\ trace = <<>>
    /\ heap = NoHeap

\* after the first call has returned the caller calls LoadAllConfigSources
\* on the same FigTree once more: with the same documents or with them the
\* other way round, and with the same destination or a zero one.  Nothing
\* else is touched: what the first call left in its Merger and its filter
\* is still there.
CallAgain ==
    /\ pc = "done" /\ err = ""
    /\ ~Recalled
    /\ sources' \in {sources, Reverse(sources)}
    /\ options' \in {options, ZeroOptions}
    /\ initial' = options'
    /\ trace' = Append(trace, CallEvent(sources, options))
    /\ pc' = "LoadAllConfigSources"
    /\ UNCHANGED <<heap, fs, homeOutside, m, configStop, idx, err>>

NextTwice ==
    \/ LoadAllConfigSources
    \/ Return
    \/ FilterOut
    \/ Decode
    \/ MergeStructs
    \/ Advance
    \/ CallAgain

SpecTwice == InitTwice /\ [][NextTwice]_vars

\* ----------------------------------------------------------------- C15
CallPos == CHOOSE k \in 1..Len(trace) : trace[k].op = "call"

\* the second call did op to the source at position i
Second(op, i) == \E k \in (CallPos + 1)..Len(trace) : trace[k] = Event(op, i)

\* C15: in a second LoadAllConfigSources call on the same FigTree a document
\* is skipped only for a stop directive of a document before it in this
\* call, and is merged otherwise; the ignore list holds only names from the
\* overwrite lists of documents this call has merged; and the call with the
\* same documents into a zero destination returns what the first call did.
C15_SecondCallIsFresh ==
    (Recalled /\ pc # "LoadAllConfigSources") =>
        /\ \A i \in 1..Len(sources) :
              /\ Second("skip", i) => StoppersBefore(i) # {}
              /\ (StoppersBefore(i) = {} /\ (i < idx \/ pc = "done")) => Second("merge", i)
        /\ configStop => \E i \in 1..Len(sources) :
                            /\ i <= idx
                            /\ ~Second("skip", i)
                            /\ DeclaresStop(sources[i].Config)
        /\ Range(m.ignore) \subseteq
              UNION {OverwriteOf(sources[j].Config) :
                        j \in {i \in 1..Len(sources) : Second("advance", i)}}
        /\ (/\ pc = "done"
            /\ sources = trace[CallPos].given
            /\ initial = ZeroOptions) => options = trace[CallPos].returned

\* the first call merged a document that declared stop and overwrite of s
\* and skipped the other one; the second call, given the documents the other
\* way round and a zero destination, merged the other one first and took s
\* from it
C15_Witness ==
    /\ Recalled /\ pc = "done" /\ err = ""
    /\ sources = Reverse(trace[CallPos].given)
    /\ DeclaresStop(sources[2].Config)
    /\ "s" \in OverwriteOf(sources[2].Config)
    /\ \E k \in 1..CallPos : trace[k] = Event("skip", 2)
    /\ initial = ZeroOptions
    /\ Second("merge", 1)
    /\ Defines(sources[1].Config, "s")
    /\ options.s = FromDoc(GetKey(sources[1].Config, "s"), sources[1].Filename)

\* ------------------------------------------------- the Merge specification
\* A caller of Merge(dst, src) with structs as in TestMergeCopySlice, one
\* level deeper: struct { Stuff [][]string }.  heap.mem[a] is the backing
\* array at address a: that of a [][]string holds the addresses of its
\* []string elements, that of a []string holds strings.  Address 0 is nil.
\* heap.common is src.Stuff, heap.stuff[i] is the Stuff of destination i.

\* longest history of calls and writes of the caller of Merge
MaxOps == 3

InnerLists == {<<"a">>, <<"a", "b">>}

\* the memory that holds one [][]string with the given []string values, the
\* outer backing array last
MemOf(lists) == Append(lists, [i \in 1..Len(lists) |-> i])

\* the elements of the slice at address a
ElemsOf(mem, a) == IF a = 0 THEN <<>> ELSE mem[a]

\* reflect.DeepEqual of two []string
sameStrings(mem, a, b) == ElemsOf(mem, a) = ElemsOf(mem, b)

\* assignValue, case reflect.Slice: a nil source is assigned as it is, any
\* other is copied with reflect.MakeSlice and reflect.Copy, which copies the
\* elements as they are
copySlice(mem, src) ==
    IF src = 0 THEN [mem |-> mem, addr |-> 0]
    ELSE [mem |-> Append(mem, mem[src]), addr |-> Len(mem) + 1]

\* mergeArrays with a [][]string destination and a reflected source, for
\* the items from ix on: an item that equals an element of cp is skipped;
\* any other is merged into a new []string (mergeArrays again, which assigns
\* string by string) and appended to cp
RECURSIVE mergeSlicesFrom(_, _, _, _, _, _)
mergeSlicesFrom(mem, cp, items, ix, skipDedup, changed) ==
    IF ix > Len(items) THEN [mem |-> mem, cp |-> cp, changed |-> changed]
    ELSE IF (~skipDedup) /\ \E k \in 1..Len(cp) : sameStrings(mem, cp[k], items[ix])
    THEN mergeSlicesFrom(mem, cp, items, ix + 1, skipDedup, changed)
    ELSE mergeSlicesFrom(Append(mem, ElemsOf(mem, items[ix])),
                         Append(cp, Len(mem) + 1), items, ix + 1, skipDedup,
                         changed \/ ElemsOf(mem, items[ix]) # <<>>)

\* dstField.Set(merged) when mergeArrays reports a change
mergeSlicesSet(dst, r) ==
    IF r.changed THEN [mem |-> Append(r.mem, r.cp), addr |-> Len(r.mem) + 1]
    ELSE [mem |-> r.mem, addr |-> dst]

\* the callback of mergeStructs for the field Stuff: assignValue for a nil
\* destination and a source that is not nil, mergeArrays otherwise
mergeStuff(mem, dst, src) ==
    IF dst = 0 /\ src # 0 THEN copySlice(mem, src)
    ELSE mergeSlicesSet(dst,
            mergeSlicesFrom(mem, ElemsOf(mem, dst), ElemsOf(mem, src), 1,
                            ElemsOf(mem, dst) = <<>>, FALSE))

\* the caller holds a source whose Stuff is nil or has one or two elements,
\* and two destinations: both nil, or the first with a slice of its own
InitMerge ==
    /\ pc = "caller"
    /\ fs = [p \in Paths |-> NoFile]
    /\ homeOutside = FALSE
    /\ sources = <<>>
    /\ options = ZeroOptions
    /\ initial = options
    /\ m = NewMerger
    /\ configStop = FALSE
    /\ idx = 0
    /\ err = ""
    /\ trace = <<>>
    /\ \E lists \in {<<>>} \cup ListsUpTo(InnerLists, 2), own \in BOOLEAN :
          \E mem \in {IF lists = <<>> THEN <<>> ELSE MemOf(lists)} :
             heap = [mem |-> IF own THEN mem \o << <<"b">>, <<Len(mem) + 1>> >> ELSE mem,
                     common |-> Len(mem),
                     stuff |-> <<IF own THEN Len(mem) + 2 ELSE 0, 0>>]

\* Merge(&stuff_i, common)
Merge(i) ==
    /\ pc = "caller"
    /\ Len(trace) < MaxOps
    /\ \E r \in {mergeStuff(heap.mem, heap.stuff[i], heap.common)} :
          heap' = [heap EXCEPT !.mem = r.mem, !.stuff[i] = r.addr]
    /\ trace' = Append(trace, Event("Merge", i))
    /\ UNCHANGED <<pc, fs, homeOutside, sources, initial, options, m, configStop, idx, err>>

\* the Stuff of the caller's struct r: 0 is the source
StuffOf(r) == IF r = 0 THEN heap.common ELSE heap.stuff[r]

\* the caller stores a string: x.Stuff[i][j] = "x"
WriteInner(r, i, j) ==
    /\ pc = "caller"
    /\ Len(trace) < MaxOps
    /\ i \in 1..Len(ElemsOf(heap.mem, StuffOf(r)))
    /\ j \in 1..Len(ElemsOf(heap.mem, heap.mem[StuffOf(r)][i]))
    /\ heap' = [heap EXCEPT !.mem[heap.mem[StuffOf(r)][i]][j] = "x"]
    /\ trace' = Append(trace, Event("write", r))
    /\ UNCHANGED <<pc, fs, homeOutside, sources, initial, options, m, configStop, idx, err>>

\* the caller stores a new slice: x.Stuff[i] = []string{"x"}
WriteOuter(r, i) ==
    /\ pc = "caller"
    /\ Len(trace) < MaxOps
    /\ i \in 1..Len(ElemsOf(heap.mem, StuffOf(r)))
    /\ heap' = [heap EXCEPT !.mem = [Append(heap.mem, <<"x">>) EXCEPT
                                        ![StuffOf(r)][i] = Len(heap.mem) + 1]]
    /\ trace' = Append(trace, Event("write", r))
    /\ UNCHANGED <<pc, fs, homeOutside, sources, initial, options, m, configStop, idx, err>>

NextMerge ==
    \/ \E i \in 1..2 : Merge(i)
    \/ \E r \in 0..2, i \in 1..2, j \in 1..2 : WriteInner(r, i, j)
    \/ \E r \in 0..2, i \in 1..2 : WriteOuter(r, i)

SpecMerge == InitMerge /\ [][NextMerge]_vars

\* ----------------------------------------------------------------- C18
\* the addresses of the slices reachable from the slice at address a
Reach(a) == IF a = 0 THEN {} ELSE {a} \cup (Range(heap.mem[a]) \ {0})

MergedInto(i) == \E k \in 1..Len(trace) : trace[k] = Event("Merge", i)

\* C18: after Merge(dst, src) no slice reachable from dst shares storage
\* with a slice reachable from src or from another destination merged from
\* the same src, at any depth.
C18_NoSharedStorage ==
    \A i \in 1..2 :
        MergedInto(i) =>
            /\ Reach(heap.stuff[i]) \cap Reach(heap.common) = {}
            /\ \A j \in (1..2) \ {i} :
                  MergedInto(j) => Reach(heap.stuff[i]) \cap Reach(heap.stuff[j]) = {}

\* the part that holds: the backing array of Stuff itself is not shared
C18_NoSharedOuter ==
    \A i \in 1..2 :
        MergedInto(i) =>
            /\ heap.stuff[i] = 0 \/ heap.stuff[i] # heap.common
            /\ \A j \in (1..2) \ {i} :
                  MergedInto(j) => (heap.stuff[i] = 0 \/ heap.stuff[i] # heap.stuff[j])

\* the source was merged into both nil destinations, the caller then wrote
\* dst1.Stuff[1][1] = "x" and nothing else, and the x shows in src.Stuff[1]
\* and in dst2.Stuff[1]
C18_Witness ==
    /\ trace = <<Event("Merge", 1), Event("Merge", 2), Event("write", 1)>>
    /\ heap.mem[heap.mem[heap.common][1]][1] = "x"
    /\ heap.mem[heap.mem[heap.stuff[2]][1]][1] = "x"
    /\ heap.stuff[1] # heap.common
    /\ heap.stuff[2] # heap.stuff[1]

\* ------------------------------------------------ the Option specification
\* A caller that works on one Option[string], the field s of its struct,
\* through the Option's own methods and through LoadConfigSource.  A value
\* of type `any` is a record of its dynamic type and its content.
Dyn(type, val) == [type |-> type, val |-> val]

OptVals == {"", "b"}

\* the values handed to SetValue and WriteAnswer: strings, an int, nil
DynVals == {Dyn("string", v) : v \in OptVals} \cup {Dyn("int", "1"), Dyn("nil", "")}

\* the outcome of a method: the Option after it, the error it returned and
\* whether it panicked instead of returning
Outcome(o, e, panics) == [o |-> o, err |-> e, panics |-> panics]

\* Set: convertString cannot fail for a string
Set(o, str) ==
    Outcome([o EXCEPT !.Value = str, !.Source = OverrideSource, !.Defined = TRUE], "", FALSE)

\* SetValue with any value: v.(T) succeeds for a string; for any other value
\* reflect.ValueOf(v).Type() panics on nil, and otherwise src.CanConvert of
\* v's own type holds and dst.Set panics, dst being reflect.ValueOf(o.Value)
\* and so not addressable
SetValueAny(o, v) ==
    IF v.type = "string" THEN Outcome(SetValue(o, v.val), "", FALSE)
    ELSE Outcome(o, "", TRUE)

WriteAnswer(o, v) ==
    IF v.type = "string"
    THEN Outcome([o EXCEPT !.Value = v.val, !.Defined = TRUE,
                            !.Source = NewSource(promptSource, NoLocation)], "", FALSE)
    ELSE Outcome(o, "error", FALSE)

\* UnmarshalYAML: node.Decode(&o.Value) fails for a node that is no scalar
UnmarshalYAML(o, node) ==
    IF node.Kind = "scalar"
    THEN Outcome([o EXCEPT !.Value = node.Value, !.Defined = TRUE,
                            !.Source = NewSource(yamlSource, coordOf(node))], "", FALSE)
    ELSE Outcome(o, "error", FALSE)

\* UnmarshalJSON: json.Unmarshal(b, &o.Value) fails for bytes that are no
\* JSON string; b is given as the value it decodes to
UnmarshalJSON(o, b) ==
    IF b.type = "string"
    THEN Outcome([o EXCEPT !.Value = b.val, !.Defined = TRUE,
                            !.Source = NewSource(jsonSource, NoLocation)], "", FALSE)
    ELSE Outcome(o, "error", FALSE)

\* LoadConfigSource with the document {s: v}: a Merger for the file, then
\* mergeStructs
LoadConfigSourceOf(dst, v, source) ==
    mergeStructs([NewMerger EXCEPT !.sourceFile = source], "top", dst,
                 Document(<< <<"s", ScalarNode(v, 2)>> >>, <<>>, ""), FALSE)

InitOption ==
    /\ pc = "caller"
    /\ fs = [p \in Paths |-> NoFile]
    /\ homeOutside = FALSE
    /\ sources = <<>>
    /\ options \in {ZeroOptions, DefaultOptions}
    /\ initial = options
    /\ m = NewMerger
    /\ configStop = FALSE
    /\ idx = 0
    /\ err = ""
    /\ trace = <<>>
    /\ heap = NoHeap

\* the caller's statement after a method call on options.s: a panic ends the
\* program
Called(op, arg, r) ==
    /\ options' = [options EXCEPT !.s = r.o]
    /\ err' = r.err
    /\ pc' = IF r.panics THEN "panic" ELSE "caller"
    /\ trace' = Append(trace, Event(op, arg))
    /\ UNCHANGED <<heap, fs, homeOutside, sources, initial, m, configStop, idx>>

CanCall == pc = "caller" /\ Len(trace) < MaxOps

CallNewOption == CanCall /\ \E v \in OptVals : Called("NewOption", Dyn("string", v), Outcome(NewOption(v), "", FALSE))

CallSet == CanCall /\ \E v \in OptVals : Called("Set", Dyn("string", v), Set(options.s, v))

CallSetValue == CanCall /\ \E v \in DynVals : Called("SetValue", v, SetValueAny(options.s, v))

CallWriteAnswer == CanCall /\ \E v \in DynVals : Called("WriteAnswer", v, WriteAnswer(options.s, v))

CallUnmarshalYAML ==
    CanCall /\ \E node \in {ScalarNode("b", 3), SequenceNode(<<>>, 3)} :
                  Called("UnmarshalYAML", node, UnmarshalYAML(options.s, node))

CallUnmarshalJSON ==
    CanCall /\ \E b \in {Dyn("string", "b"), Dyn("int", "1")} :
                  Called("UnmarshalJSON", b, UnmarshalJSON(options.s, b))

CallLoadConfigSource ==
    /\ CanCall
    /\ \E r \in {LoadConfigSourceOf(options, "b", <<"doc", 1>>)} :
          /\ options' = r.val
          /\ err' = r.err
    /\ trace' = Append(trace, Event("LoadConfigSource", Dyn("string", "b")))
    /\ UNCHANGED <<pc, heap, fs, homeOutside, sources, initial, m, configStop, idx>>

NextOption ==
    \/ CallNewOption
    \/ CallSet
    \/ CallSetValue
    \/ CallWriteAnswer
    \/ CallUnmarshalYAML
    \/ CallUnmarshalJSON
    \/ CallLoadConfigSource

SpecOption == InitOption /\ [][NextOption]_vars

\* ----------------------------------------------------------------- C19
\* C19: SetValue called with a value that is no string returns an error to
\* its caller and leaves Value and Defined as they were.
C19_Step ==
    \A v \in {d \in DynVals : d.type # "string"} :
        trace' = Append(trace, Event("SetValue", v)) =>
            /\ pc' = "caller"
            /\ err' # ""
            /\ options'.s.Value = options.s.Value
            /\ options'.s.Defined = options.s.Defined

C19_SetValueRejects == [][C19_Step]_vars

\* the part that holds: Value and Defined are as they were
C19_Unchanged ==
    [][\A v \in {d \in DynVals : d.type # "string"} :
          trace' = Append(trace, Event("SetValue", v)) => options'.s = options.s]_vars

\* SetValue(1) on NewOption("b"): the program panicked, no error was
\* returned
C19_Witness ==
    /\ pc = "panic"
    /\ err = ""
    /\ trace = <<Event("NewOption", Dyn("string", "b")), Event("SetValue", Dyn("int", "1"))>>
    /\ options.s = NewOption("b")

\* ----------------------------------------------------------------- C20
\* C20: after any sequence of NewOption, Set, SetValue, WriteAnswer,
\* UnmarshalYAML, UnmarshalJSON and merges, an Option that is defined has a
\* source with a name.
C20_DefinedHasOrigin ==
    IsDefined(options.s) => options.s.Source.Name # <<>>

\* SetValue("b") on the zero Option: defined, and no source
C20_Witness ==
    /\ initial = ZeroOptions
    /\ trace = <<Event("SetValue", Dyn("string", "b"))>>
    /\ pc = "caller" /\ err = ""
    /\ options.s = [Source |-> NewSource(<<>>, NoLocation), Defined |-> TRUE, Value |-> "b"]

\* ----------------------------------------------------------------- C26
\* C26 (as the specification states it): in LoadAllConfigs a candidate file
\* that comes after the stopping document in processing order is not
\* consulted: when a file declares stop and no file that is processed before
\* it (a more specific one) fails to be read, the call does not fail,
\* whatever the files after it are.
C26_AfterStopNotConsulted ==
    pc = "done" =>
        \A p \in Paths :
            (/\ DeclaresStop(fs[p])
             /\ \A q \in Paths : Rank(q) > Rank(p) => fs[q] # BadFile) => err = ""

\* the part that holds: a file after the stopping document is read, and it
\* is never merged
C26_AfterStopNotMerged ==
    FromFiles =>
        \A i, j \in 1..Len(sources) :
            (i < j /\ DeclaresStop(sources[i].Config)) => ~Merged(j)

\* the working directory's file declares stop, the file in /etc cannot be
\* read, and LoadAllConfigs has returned the error without merging anything
C26_Witness ==
    /\ pc = "done"
    /\ err # ""
    /\ DeclaresStop(fs[Dir(Depth)])
    /\ \A k \in 1..(Depth - 1) : fs[Dir(k)] = NoFile
    /\ fs[Home] = NoFile
    /\ fs[Etc] = BadFile
    /\ sources = <<>>
    /\ options = initial

\* ----------------------------------------------------------------- C27
\* C27: a document that declares overwrite [f] for a name f that is already
\* in the ignore list does not change the destination's field f.
C27_Step ==
    \A f \in TopFields :
        (pc = "mergeStructs" /\ mustIgnore(m, f) /\ mustOverwrite(m, f))
        => options'[f] = options[f]

C27_IgnoreBeatsOverwrite == [][C27_Step]_vars

\* both documents declared overwrite [s] and gave s different values; both
\* were merged and s has the first one's
C27_Witness ==
    /\ pc = "done" /\ err = ""
    /\ Len(sources) = 2
    /\ Merged(1) /\ Merged(2)
    /\ "s" \in OverwriteOf(sources[1].Config)
    /\ "s" \in OverwriteOf(sources[2].Config)
    /\ Defines(sources[1].Config, "s") /\ Defines(sources[2].Config, "s")
    /\ GetKey(sources[1].Config, "s").Value # GetKey(sources[2].Config, "s").Value
    /\ options.s = FromDoc(GetKey(sources[1].Config, "s"), sources[1].Filename)

\* ------------------------------------------------ the nested specification
\* documents about the struct t whose overwrite list names nothing, the
\* struct itself, or s: the name of a top-level field and of a field of t
NestedDocs == {Document(b, ow, "") : b \in Bodies("t"), ow \in {<<>>, <<"s">>, <<"t">>}}

\* a caller of LoadAllConfigSources with two documents about t
InitNested ==
    /\ pc = "LoadAllConfigSources"
    /\ fs = [p \in Paths |-> NoFile]
    /\ homeOutside = FALSE
    /\ \E x \in NestedDocs, y \in NestedDocs :
          sources = <<ConfigSource(x, <<"doc", 1>>), ConfigSource(y, <<"doc", 2>>)>>
    /\ options \in {ZeroOptions, DefaultOptions}
    /\ initial = options
    /\ m = NewMerger
    /\ configStop = FALSE
    /\ idx = 0
    /\ err = ""
    /\ trace = <<>>
    /\ heap = NoHeap

SpecNested == InitNested /\ [][NextSlices]_vars

\* ----------------------------------------------------------------- C28
\* C28: an overwrite or ignore name touches only the top-level field of that
\* name.  When a document defines t and t itself is neither ignored nor under
\* overwrite, every field of t is merged under the normal rules whatever the
\* other names on the lists are: a field the document names takes the
\* document's value when it is unset or a default and keeps what it has
\* otherwise, and a field the document does not name is left alone.
C28_Step ==
    (/\ pc = "mergeStructs"
     /\ Defines(sources[idx].Config, "t")
     /\ ~mustIgnore(m, "t")
     /\ ~mustOverwrite(m, "t")) =>
        \A sf \in SubFields :
            options'.t[sf] =
                IF /\ sf \in NodeKeys(GetKey(sources[idx].Config, "t"))
                   /\ (~IsDefined(options.t[sf])) \/ IsDefault(options.t[sf])
                THEN FromDoc(GetKey(GetKey(sources[idx].Config, "t"), sf),
                             sources[idx].Filename)
                ELSE options.t[sf]

C28_NamesAreTopLevelOnly == [][C28_Step]_vars

\* the part that holds: the field q of t, whose name is on no list
C28_OtherNamesUntouched ==
    [][(/\ pc = "mergeStructs"
        /\ Defines(sources[idx].Config, "t")
        /\ ~mustIgnore(m, "t")
        /\ ~mustOverwrite(m, "t")) =>
            options'.t.q =
                IF /\ "q" \in NodeKeys(GetKey(sources[idx].Config, "t"))
                   /\ (~IsDefined(options.t.q)) \/ IsDefault(options.t.q)
                THEN FromDoc(GetKey(GetKey(sources[idx].Config, "t"), "q"),
                             sources[idx].Filename)
                ELSE options.t.q]_vars

\* the first document declared overwrite [s] and nothing about t, the second
\* gave t.s a value, t is on no list, and t.s is still unset
C28_Witness ==
    /\ pc = "done" /\ err = ""
    /\ initial = ZeroOptions
    /\ Merged(1) /\ Merged(2)
    /\ OverwriteOf(sources[1].Config) = {"s"}
    /\ OverwriteOf(sources[2].Config) = {}
    /\ ~Defines(sources[1].Config, "t")
    /\ GetKey(GetKey(sources[2].Config, "t"), "s") # NilNode
    /\ options.t.s = ZeroOption

\* ------------------------------------------------- the typed specification
\* Documents whose values need not have the type of the destination's field:
\* a sequence for the Option s and the string p, a scalar for the slice l
\* and the map m, a map with a sequence for a value, a map with the key 1.
TypedFields == {"s", "p", "l", "m"}

TypedBodies(f) ==
    CASE f \in {"s", "p"} ->
            {<< <<f, ScalarNode("a", 2)>> >>,
             << <<f, SequenceNode(ScalarItems(<<"a">>, 2), 2)>> >>}
      [] f = "l" ->
            {<< <<f, SequenceNode(ScalarItems(<<"a">>, 2), 2)>> >>,
             << <<f, ScalarNode("a", 2)>> >>}
      [] f = "m" ->
            {<< <<f, MappingNode(ScalarPairs(<< <<"k1", "a">> >>, 2), 2)>> >>,
             << <<f, ScalarNode("a", 2)>> >>,
             << <<f, MappingNode(<< <<"k2", ScalarNode("b", 3)>>,
                                    <<"k1", SequenceNode(ScalarItems(<<"a">>, 4), 4)>> >>,
                                 2)>> >>,
             << <<f, MappingNode(ScalarPairs(<< <<"1", "a">> >>, 2), 2)>> >>}

\* the bodies with one field, and with two different fields
OneField == UNION {TypedBodies(f) : f \in TypedFields}
TwoFields == {p[1] \o p[2] : p \in {q \in OneField \X OneField : q[1][1][1] # q[2][1][1]}}

\* a caller of LoadAllConfigSources with a first document of one or two
\* fields, a second one of one field, and a zero destination
InitTyped ==
    /\ pc = "LoadAllConfigSources"
    /\ fs = [p \in Paths |-> NoFile]
    /\ homeOutside = FALSE
    /\ \E b \in OneField \cup TwoFields, ow \in {<<>>, <<"s">>}, c \in OneField :
          sources = <<ConfigSource(Document(b, ow, ""), <<"doc", 1>>),
                      ConfigSource(Document(c, <<>>, ""), <<"doc", 2>>)>>
    /\ options = ZeroOptions
    /\ initial = options
    /\ m = NewMerger
    /\ configStop = FALSE
    /\ idx = 0
    /\ err = ""
    /\ trace = <<>>
    /\ heap = NoHeap

SpecTyped == InitTyped /\ [][NextSlices]_vars

\* the node has the kind that the field f takes
WellTyped(f, node) ==
    node.Kind = CASE f \in {"s", "p"} -> "scalar"
                  [] f = "l" -> "sequence"
                  [] f = "m" -> "mapping"

\* the document at idx gives f, which is not ignored and still unset, a value
\* of another kind than the field's
Misplaced(f) ==
    /\ Defines(sources[idx].Config, f)
    /\ ~mustIgnore(m, f)
    /\ isZero(populateYAMLMaps("top")[f], options[f])
    /\ ~WellTyped(f, GetKey(sources[idx].Config, f))

\* ----------------------------------------------------------------- C21
\* C21: when a document gives a field that is neither ignored nor blocked by
\* precedence a value the merge cannot place there, the load returns an
\* error; it never reports success with the value left out.
C21_Step ==
    \A f \in TypedFields :
        (pc = "mergeStructs" /\ Misplaced(f)) => (pc' = "done" /\ err' # "")

C21_MisplacedValueIsAnError == [][C21_Step]_vars

\* the part that holds: the Option, the string and the slice
C21_ScalarsAndSlices ==
    [][\A f \in {"s", "p", "l"} :
          (pc = "mergeStructs" /\ Misplaced(f)) => pc' # "advance"]_vars

\* the only fields of the documents were the scalar a for the map m; both
\* were merged, the call returned nil and the destination is as it was
C21_Witness ==
    /\ pc = "done" /\ err = ""
    /\ Merged(1) /\ Merged(2)
    /\ \A i \in 1..2 : sources[i].Config = Document(<< <<"m", ScalarNode("a", 2)>> >>, <<>>, "")
    /\ options = ZeroOptions

\* ----------------------------------------------------------------- C22
\* C22: whatever the documents hold, the load succeeds or returns an error;
\* it never panics.
C22_NeverPanics == pc # "panic"

\* the first document was {m: {1: a}}: the call panicked while merging it
C22_Witness ==
    /\ pc = "panic"
    /\ idx = 1
    /\ sources[1].Config = Document(<< <<"m", MappingNode(ScalarPairs(<< <<"1", "a">> >>, 2), 2)>> >>, <<>>, "")
    /\ trace = <<Event("merge", 1)>>

\* ----------------------------------------------------------------- C29
\* C29: when the merge of a document returns an error, the destination is
\* as it was before that document's merge began and so is the ignore list.
C29_Step ==
    (pc = "mergeStructs" /\ pc' = "done" /\ err' # "")
    => (options' = options /\ m'.ignore = m.ignore)

C29_FailedMergeChangesNothing == [][C29_Step]_vars

\* the part that holds: the ignore list
C29_IgnoreUnchanged ==
    [][(pc = "mergeStructs" /\ pc' = "done" /\ err' # "") => m'.ignore = m.ignore]_vars

\* the first document gave s the scalar a and then p a sequence: the call
\* returned an error and s holds the document's a
C29_Witness ==
    /\ pc = "done" /\ err # ""
    /\ idx = 1
    /\ sources[1].Config =
          Document(<< <<"s", ScalarNode("a", 2)>>,
                      <<"p", SequenceNode(ScalarItems(<<"a">>, 2), 2)>> >>, <<>>, "")
    /\ initial.s = ZeroOption
    /\ options.s = FromDoc(ScalarNode("a", 2), <<"doc", 1>>)

\* ---------------------------------------------- the elements specification
\* longest list of a document of the elements specification
MaxElems == 3

\* the items of a yaml sequence of {id: v} mappings, one per line from line on
StructItems(vals, line) ==
    [i \in 1..Len(vals) |->
        MappingNode(<< <<"id", ScalarNode(vals[i], line + i)>> >>, line + i)]

\* a document whose only field is f, the slice of Options l or the slice of
\* structs r, with one element per value
ElemDocument(f, vals) ==
    Document(<< <<f, SequenceNode(IF f = "l" THEN ScalarItems(vals, 2)
                                  ELSE StructItems(vals, 2), 2)>> >>, <<>>, "")

\* a caller of LoadAllConfigSources with two documents that give the same
\* slice up to MaxElems elements each, and a zero destination
InitElems ==
    /\ pc = "LoadAllConfigSources"
    /\ fs = [p \in Paths |-> NoFile]
    /\ homeOutside = FALSE
    /\ \E f \in {"l", "r"} :
       \E x \in ListsUpTo(ScalarVals, MaxElems), y \in ListsUpTo(ScalarVals, MaxElems) :
          sources = <<ConfigSource(ElemDocument(f, x), <<"doc", 1>>),
                      ConfigSource(ElemDocument(f, y), <<"doc", 2>>)>>
    /\ options = ZeroOptions
    /\ initial = options
    /\ m = NewMerger
    /\ configStop = FALSE
    /\ idx = 0
    /\ err = ""
    /\ trace = <<>>
    /\ heap = NoHeap

SpecElems == InitElems /\ [][NextSlices]_vars

\* the value of an element of the slice f, and of an item of a document's
\* sequence for f: for an Option its GetValue, for a struct the struct
ElemValue(f, e) == IF f = "l" THEN [id |-> GetValue(e)] ELSE e
ItemValue(f, item) == IF f = "l" THEN [id |-> item.Value] ELSE [id |-> GetKey(item, "id").Value]

\* the slice f after both documents: the first document's elements, then
\* elements of the second document of which each equals, by value, no
\* element before it; and no value of the second document is missing
AppendsOnlyNew(f) ==
    LET first == GetKey(sources[1].Config, f).Content
        second == GetKey(sources[2].Config, f).Content
    IN  /\ Len(options[f]) >= Len(first)
        /\ \A i \in 1..Len(first) : ElemValue(f, options[f][i]) = ItemValue(f, first[i])
        /\ \A i \in (Len(first) + 1)..Len(options[f]) :
              /\ \E k \in 1..Len(second) : ElemValue(f, options[f][i]) = ItemValue(f, second[k])
              /\ \A j \in 1..(i - 1) : ElemValue(f, options[f][i]) # ElemValue(f, options[f][j])
        /\ \A k \in 1..Len(second) :
              \E i \in 1..Len(options[f]) : ElemValue(f, options[f][i]) = ItemValue(f, second[k])

\* ----------------------------------------------------------------- C23
\* C23: slice merge appends a source element only if no element already in
\* the accumulated destination is equal to it by value, for Option-wrapped
\* scalars and for struct elements alike.
C23_AppendsOnlyNew ==
    (pc = "done" /\ err = "") =>
        \A f \in {"l", "r"} : Defines(sources[1].Config, f) => AppendsOnlyNew(f)

\* the part that holds: the slice of Options
C23_OptionElements ==
    (pc = "done" /\ err = "") =>
        (Defines(sources[1].Config, "l") => AppendsOnlyNew("l"))

\* both documents gave r the one element {id: a}, and r holds it twice
C23_Witness ==
    /\ pc = "done" /\ err = ""
    /\ Merged(1) /\ Merged(2)
    /\ \A i \in 1..2 : sources[i].Config = ElemDocument("r", <<"a">>)
    /\ options.r = <<[id |-> "a"], [id |-> "a"]>>

\* --------------------------------------------------- the map specification
\* a caller of LoadAllConfigSources with two documents and an empty map
InitMap ==
    /\ pc = "LoadAllConfigSources"
    /\ fs = [p \in Paths |-> NoFile]
    /\ homeOutside = FALSE
    /\ \E x \in AnyDocs, y \in AnyDocs :
          sources = <<ConfigSource(x, <<"doc", 1>>), ConfigSource(y, <<"doc", 2>>)>>
    /\ options = AnyMap(<<>>)
    /\ initial = options
    /\ m = NewMerger
    /\ configStop = FALSE
    /\ idx = 0
    /\ err = ""
    /\ trace = <<>>
    /\ heap = NoHeap

\* loadConfigSource, second half, for a map destination: mergeStructs hands
\* a destination of kind Map to mergeMaps at once
MergeMaps ==
    /\ pc = "mergeStructs"
    /\ \E r \in {mergeAnyMaps(m, options, sources[idx].Config, FALSE)} :
          /\ options' = r.val
          /\ trace' = Append(trace, Event("merge", idx))
          /\ IF r.err = "panic"
             THEN pc' = "panic" /\ UNCHANGED err
             ELSE IF r.err # ""
             THEN pc' = "done" /\ err' = r.err
             ELSE pc' = "advance" /\ UNCHANGED err
    /\ UNCHANGED <<heap, fs, homeOutside, sources, initial, m, configStop, idx>>

NextMap ==
    \/ LoadAllConfigSources
    \/ Return
    \/ FilterOut
    \/ Decode
    \/ MergeMaps
    \/ Advance

SpecMap == InitMap /\ [][NextMap]_vars

\* ----------------------------------------------------------------- C25
\* C25: with a map for a destination, a key whose name is in the ignore
\* list is not inserted, extended or changed by the merge of a document.
C25_Step ==
    \A key \in {"s", "l"} :
        (pc = "mergeStructs" /\ mustIgnore(m, key)) =>
            /\ anyMapHas(options', key) <=> anyMapHas(options, key)
            /\ anyMapHas(options, key) => anyMapIndex(options', key) = anyMapIndex(options, key)

C25_IgnoredKeysAreSkipped == [][C25_Step]_vars

\* the first document declared overwrite [l] and gave l the list [a], the
\* second gave l the list [b], and the map's l is [a, b]
C25_Witness ==
    /\ pc = "done" /\ err = ""
    /\ Merged(1) /\ Merged(2)
    /\ OverwriteOf(sources[1].Config) = {"l"}
    /\ mustIgnore(m, "l")
    /\ NodeValues(GetKey(sources[1].Config, "l")) = <<"a">>
    /\ NodeValues(GetKey(sources[2].Config, "l")) = <<"b">>
    /\ anyMapIndex(options, "l") = AnySlice(<<AnyString("a"), AnyString("b")>>)

\* ----------------------------------------------------------------- C30
\* C30: merging a document never copies its `config` block into the
\* destination: a map destination that had no `config` key never gets one.
C30_ConfigIsNotCopied == ~anyMapHas(options, "config")

\* the first document was {config: {overwrite: [s]}, s: a}; it was merged
\* and the map holds its `config` block next to s
C30_Witness ==
    /\ pc = "done" /\ err = ""
    /\ Merged(1)
    /\ sources[1].Config = Document(<< <<"s", ScalarNode("a", 2)>> >>, <<"s">>, "")
    /\ anyMapHas(options, "config")
    /\ anyMapIndex(options, "config")
          = AnyMap(<< <<"overwrite", AnySlice(<<AnyString("s")>>)>> >>)
    /\ anyMapIndex(options, "s") = AnyString("a")

\* ------------------------------------------------ the command-line specification
\* A caller that has loaded one document into its struct and then hands
\* command-line tokens to the Set methods of the Option s, the MapOption m
\* and the ListOption l.  A token is the sequence of its pieces, a piece
\* being a separator or a run of other characters.
Separators == {":", "="}

\* the string a sequence of pieces spells
Join(pieces) ==
    CASE pieces = <<>> -> ""
      [] Len(pieces) = 1 -> pieces[1]
      [] pieces = <<"a", "=", "b">> -> "a=b"
      [] pieces = <<"k1", "=", "b">> -> "k1=b"
      [] pieces = <<"k2", ":", "b">> -> "k2:b"
      [] pieces = <<"=", "b">> -> "=b"
      [] pieces = <<"k2", "=", "a", "=", "b">> -> "k2=a=b"

\* stringMapRegex.Split(value, 2): the token is cut at its first separator,
\* if it has one
Split(value) ==
    IF \E i \in 1..Len(value) : value[i] \in Separators
    THEN LET i == CHOOSE j \in 1..Len(value) :
                      /\ value[j] \in Separators
                      /\ \A k \in 1..(j - 1) : value[k] \notin Separators
         IN <<SubSeq(value, 1, i - 1), SubSeq(value, i + 1, Len(value))>>
    ELSE <<value>>

\* variant: the map is replaced by one that holds the new key only
MapOptionSet_Fresh(o, value) ==
    IF Len(Split(value)) # 2 THEN Outcome(o, "error", FALSE)
    ELSE Outcome(MapSet(NilMap, Join(Split(value)[1]), Set(ZeroOption, Join(Split(value)[2])).o),
                 "", FALSE)

\* MapOption.Set
MapOptionSet(o, value) ==
    IF Len(Split(value)) # 2 THEN Outcome(o, "error", FALSE)
    ELSE Outcome(MapSet(o, Join(Split(value)[1]), Set(ZeroOption, Join(Split(value)[2])).o),
                 "", FALSE)

\* ListOption.Set
ListOptionSet(o, value) == Outcome(Append(o, Set(ZeroOption, Join(value)).o), "", FALSE)

OptionTokens == {<<"b">>, <<"a", "=", "b">>}

MapTokens ==
    {<<"k1", "=", "b">>, <<"k2", ":", "b">>, <<"k2", "=", "a", "=", "b">>, <<"=", "b">>, <<"b">>}

ListTokens == {<<"a">>, <<"b">>}

\* the documents loaded before the command line is parsed
CommandLineDocs ==
    {Document(b, <<>>, "") :
        b \in {<<>>,
               << <<"s", ScalarNode("a", 2)>> >>,
               << <<"l", SequenceNode(ScalarItems(<<"a", "b">>, 2), 2)>> >>,
               << <<"m", MappingNode(<< <<"k1", ScalarNode("a", 3)>> >>, 2)>> >>,
               << <<"s", ScalarNode("a", 2)>>,
                  <<"l", SequenceNode(ScalarItems(<<"a">>, 3), 3)>>,
                  <<"m", MappingNode(<< <<"k1", ScalarNode("a", 6)>>,
                                        <<"k2", ScalarNode("a", 7)>> >>, 5)>> >>}}

InitCommandLine ==
    /\ pc = "caller"
    /\ fs = [p \in Paths |-> NoFile]
    /\ homeOutside = FALSE
    /\ sources = <<>>
    /\ \E doc \in CommandLineDocs :
          options = mergeStructs([NewMerger EXCEPT !.sourceFile = <<"doc", 1>>], "top",
                                 ZeroOptions, doc, FALSE).val
    /\ initial = options
    /\ m = NewMerger
    /\ configStop = FALSE
    /\ idx = 0
    /\ err = ""
    /\ trace = <<>>
    /\ heap = NoHeap

\* the caller's statement after a Set call on the field f
CalledOn(f, op, value, r) ==
    /\ options' = [options EXCEPT ![f] = r.o]
    /\ err' = r.err
    /\ trace' = Append(trace, Event(op, Dyn("string", Join(value))))
    /\ UNCHANGED <<pc, heap, fs, homeOutside, sources, initial, m, configStop, idx>>

CallOptionSet ==
    CanCall /\ \E value \in OptionTokens : CalledOn("s", "Option.Set", value, Set(options.s, Join(value)))

CallMapOptionSet ==
    CanCall /\ \E value \in MapTokens : CalledOn("m", "MapOption.Set", value, MapOptionSet(options.m, value))

CallListOptionSet ==
    CanCall /\ \E value \in ListTokens : CalledOn("l", "ListOption.Set", value, ListOptionSet(options.l, value))

NextCommandLine ==
    \/ CallOptionSet
    \/ CallMapOptionSet
    \/ CallListOptionSet

SpecCommandLine == InitCommandLine /\ [][NextCommandLine]_vars

\* ----------------------------------------------------------------- C24
\* C24: a successful Option.Set leaves the Option defined with the source
\* override; a successful MapOption.Set adds or replaces exactly one key
\* and a successful ListOption.Set appends exactly one element, the new
\* entry with the source override, and every entry that was there before,
\* such as one merged from a document, stays as it was.
LastOp == trace'[Len(trace')].op

IsOverride(o) == o.Defined /\ o.Source = OverrideSource

C24_Step ==
    (Len(trace') = Len(trace) + 1 /\ err' = "") =>
        /\ LastOp = "Option.Set" =>
              /\ IsOverride(options'.s)
              /\ options' = [options EXCEPT !.s = options'.s]
        /\ LastOp = "MapOption.Set" =>
              /\ \E key \in DOMAIN options'.m :
                    /\ DOMAIN options'.m = (DOMAIN options.m) \cup {key}
                    /\ IsOverride(options'.m[key])
                    /\ \A k \in (DOMAIN options.m) \ {key} : options'.m[k] = options.m[k]
              /\ options' = [options EXCEPT !.m = options'.m]
        /\ LastOp = "ListOption.Set" =>
              /\ Len(options'.l) = Len(options.l) + 1
              /\ IsOverride(options'.l[Len(options'.l)])
              /\ SubSeq(options'.l, 1, Len(options.l)) = options.l
              /\ options' = [options EXCEPT !.l = options'.l]

C24_SetIsCumulative == [][C24_Step]_vars

\* the document gave s, l = [a] and m = {k1, k2}; after --m k1=b, --l b and
\* --s b the three new entries come from override, and l[1] and m.k2 still
\* come from the document
C24_Witness ==
    /\ Len(trace) = 3 /\ err = ""
    /\ \E i, j, k \in 1..3 :
          /\ trace[i] = Event("MapOption.Set", Dyn("string", "k1=b"))
          /\ trace[j] = Event("ListOption.Set", Dyn("string", "b"))
          /\ trace[k] = Event("Option.Set", Dyn("string", "b"))
    /\ initial.l # <<>> /\ DOMAIN initial.m = {"k1", "k2"}
    /\ options.s.Value = "b" /\ IsOverride(options.s)
    /\ DOMAIN options.m = {"k1", "k2"}
    /\ options.m["k1"].Value = "b" /\ IsOverride(options.m["k1"])
    /\ options.m["k2"] = initial.m["k2"] /\ options.m["k2"].Source.Name = <<"doc", 1>>
    /\ Len(options.l) = 2
    /\ options.l[1] = initial.l[1] /\ options.l[1].Source.Name = <<"doc", 1>>
    /\ options.l[2].Value = "b" /\ IsOverride(options.l[2])

====
